---- MODULE Spec2Model ----
(***************************************************************************)
(* Essential Shortcuts (obsidian-essential-shortcuts): the command         *)
(* handlers of the plugin over the host editor's document and selection    *)
(* set.                                                                    *)
(*                                                                         *)
(* A string is a sequence of one-character strings; "\n" is the line       *)
(* break.  The document is the sequence of its lines (line n of the host   *)
(* is doc[n+1]); a position is [line, ch], both counted from 0 as in the   *)
(* host API; a selection is [anchor, head]; the selection set is a         *)
(* sequence whose last entry is the primary selection.                     *)
(***************************************************************************)
EXTENDS Integers, Sequences, FiniteSets, TLC

VARIABLES
    doc,               \* host: the document, a sequence of lines
    sels,              \* host: the selection set
    selectLineCount,   \* plugin field
    lastSelectedLine,  \* plugin field (-1: unset)
    lastSelectedWord,  \* plugin field (<<>> stands for null)
    settings,          \* plugin field: the enable flags, by name
    last,              \* history: the latest invocation and the state it started from
    run                \* history: the line-select run in progress

vars ==
    <<doc, sels, selectLineCount, lastSelectedLine, lastSelectedWord, settings, last, run>>

---------------------------------------------------------------------------
(* Bounds of the explored state space.                                     *)

DupMaxLines == 3
DupMaxLen == 1
LineMaxLines == 3
MaxCount == 3
CurMaxLines == 2
CurMaxLen == 1
MaxSels == 2
WordMaxLines == 1
WordMaxLen == 3
OccMaxText == 4
InsMaxLines == 3
InsMaxLen == 1
SortMaxLines == 3
CaseMaxLen == 3
CheckMaxLines == 1
MemMaxLines == 1

---------------------------------------------------------------------------
(* Values.                                                                 *)

NL == "\n"

Min(a, b) == IF a <= b THEN a ELSE b

Max(a, b) == IF a >= b THEN a ELSE b

Pos(l, c) == [line |-> l, ch |-> c]

Sel(a, h) == [anchor |-> a, head |-> h]

\* Every string over the characters C of length at most n.
StringsOver(C, n) == UNION {[1..k -> C] : k \in 0..n}

\* Every document of 1..m lines, each a string over C of length at most n.
DocsOver(C, m, n) == UNION {[1..k -> StringsOver(C, n)] : k \in 1..m}

\* Array.prototype.join("\n")
RECURSIVE JoinLines(_)
JoinLines(ls) ==
    IF Len(ls) = 0 THEN <<>>
    ELSE IF Len(ls) = 1 THEN ls[1]
    ELSE ls[1] \o <<NL>> \o JoinLines(Tail(ls))

\* String.prototype.indexOf(searchString, position): the first index at or
\* after position (clamped to 0..length) where searchString occurs, or -1.
indexOf(str, searchString, position) ==
    LET start == Min(Max(position, 0), Len(str))
        found == {k \in start..(Len(str) - Len(searchString)) :
                     SubSeq(str, k + 1, k + Len(searchString)) = searchString}
    IN IF found = {} THEN -1 ELSE CHOOSE k \in found : \A m \in found : k <= m

\* String.prototype.lastIndexOf(searchString, position): the last index at
\* or before position (clamped to 0..length - searchLength) where
\* searchString occurs, or -1.
lastIndexOf(str, searchString, position) ==
    LET start == Min(Max(position, 0), Len(str) - Len(searchString))
        found == {k \in 0..start :
                     SubSeq(str, k + 1, k + Len(searchString)) = searchString}
    IN IF found = {} THEN -1 ELSE CHOOSE k \in found : \A m \in found : k >= m

\* String.prototype.slice(start, end): a negative index counts from the end.
slice(str, start, end) ==
    LET from == IF start < 0 THEN Max(Len(str) + start, 0) ELSE Min(start, Len(str))
        to == IF end < 0 THEN Max(Len(str) + end, 0) ELSE Min(end, Len(str))
    IN SubSeq(str, from + 1, to)

\* String.prototype.split("\n")
RECURSIVE SplitLines(_)
SplitLines(s) ==
    IF \E i \in 1..Len(s) : s[i] = NL
    THEN LET i == CHOOSE i \in 1..Len(s) :
                      s[i] = NL /\ \A j \in 1..(i - 1) : s[j] # NL
         IN <<SubSeq(s, 1, i - 1)>> \o SplitLines(SubSeq(s, i + 1, Len(s)))
    ELSE <<s>>

---------------------------------------------------------------------------
(* The host editor (the Editor interface of the obsidian API the handlers  *)
(* call).  Positions handed to the host are clipped to the document.       *)

lineCount(d) == Len(d)

getLine(d, n) == d[n + 1]

getValue(d) == JoinLines(d)

\* Offset of column 0 of line n in getValue(d).
RECURSIVE LineStart(_, _)
LineStart(d, n) == IF n = 0 THEN 0 ELSE LineStart(d, n - 1) + Len(d[n]) + 1

posToOffset(d, p) ==
    IF p.line < 0 THEN 0
    ELSE IF p.line >= Len(d) THEN Len(getValue(d))
    ELSE LineStart(d, p.line) + Min(Max(p.ch, 0), Len(d[p.line + 1]))

offsetToPos(d, o) ==
    LET n == CHOOSE n \in 0..(Len(d) - 1) :
                 /\ LineStart(d, n) <= o
                 /\ o <= LineStart(d, n) + Len(d[n + 1])
    IN Pos(n, o - LineStart(d, n))

clipPos(d, p) == offsetToPos(d, posToOffset(d, p))

\* replaceRange(text, from, to): the text between from and to becomes text.
replaceRange(d, text, from, to) ==
    LET v == getValue(d)
        f == posToOffset(d, from)
        t == posToOffset(d, to)
    IN SplitLines(SubSeq(v, 1, f) \o text \o SubSeq(v, t + 1, Len(v)))

setSelections(d, ss) ==
    [i \in 1..Len(ss) |-> Sel(clipPos(d, ss[i].anchor), clipPos(d, ss[i].head))]

setSelection(d, a, h) == <<Sel(clipPos(d, a), clipPos(d, h))>>

setCursor(d, p) == <<Sel(clipPos(d, p), clipPos(d, p))>>

listSelections(ss) == ss

\* getCursor(): the head of the primary selection.
getCursor(ss) == ss[Len(ss)].head

somethingSelected(ss) == \E i \in 1..Len(ss) : ss[i].anchor # ss[i].head

\* Offsets of the two ends of selection s in getValue(d).
SelFrom(d, s) == Min(posToOffset(d, s.anchor), posToOffset(d, s.head))

SelTo(d, s) == Max(posToOffset(d, s.anchor), posToOffset(d, s.head))

\* getSelection(): the text of the primary selection.
getSelection(d, ss) ==
    SubSeq(getValue(d), SelFrom(d, ss[Len(ss)]) + 1, SelTo(d, ss[Len(ss)]))

\* Every position of document d.
Positions(d) == UNION {{Pos(l, c) : c \in 0..Len(d[l + 1])} : l \in 0..(Len(d) - 1)}

\* Every single selection of document d.
SingleSelections(d) == {<<Sel(a, h)>> : a \in Positions(d), h \in Positions(d)}

---------------------------------------------------------------------------
(* History: what the latest invocation was and the state it started from;  *)
(* afterPointerDown says that a pointer-down event had fired and           *)
(* line-select had not been executed since; issued is the selection set    *)
(* the handler handed to the host (setSelections, setSelection or          *)
(* setCursor), before the host clipped it, <<>> when it handed over none;  *)
(* outcome is "returned" when the handler returned, "throws" when it left  *)
(* by an exception and "hangs" when it never left; failed names the host   *)
(* call that threw during the invocation, "none" when none did;            *)
(* afterSelectLine says that the selection set the invocation started from *)
(* was the one an executed line-select had produced.                       *)

Record(cmd, checking, ret, issued) ==
    [cmd |-> cmd, checking |-> checking, ret |-> ret, issued |-> issued,
     outcome |-> "returned", failed |-> "none",
     afterPointerDown |-> run.reset, afterSelectLine |-> run.selected,
     doc |-> doc, sels |-> sels,
     selectLineCount |-> selectLineCount,
     lastSelectedLine |-> lastSelectedLine,
     lastSelectedWord |-> lastSelectedWord]

NoRecord(d, ss) ==
    [cmd |-> "none", checking |-> FALSE, ret |-> TRUE, issued |-> <<>>,
     outcome |-> "returned", failed |-> "none",
     afterPointerDown |-> FALSE, afterSelectLine |-> FALSE,
     doc |-> d, sels |-> ss,
     selectLineCount |-> 0, lastSelectedLine |-> -1, lastSelectedWord |-> <<>>]

\* No line-select run is in progress: active says that the latest executed
\* commands were k line-select invocations in a row, the first of them with
\* an empty selection and the cursor on line `line`; selected says that the
\* selection set is the one an executed line-select produced, no command
\* having run and no selection change having been made since.
NoRun == [active |-> FALSE, line |-> 0, k |-> 0, reset |-> FALSE, selected |-> FALSE]

\* A command other than line-select ran: it ends the run.
EndRun(checking) == IF checking THEN run ELSE [NoRun EXCEPT !.reset = run.reset]

\* The enable flags of the commands modelled in the variants that load
\* settings, all true by default.
DEFAULT_SETTINGS == [enableDuplicateLineDown |-> TRUE, enableDuplicateLineUp |-> TRUE]

\* The plugin's fields after construction.
InitPlugin ==
    /\ selectLineCount = 0
    /\ lastSelectedLine = -1
    /\ lastSelectedWord = <<>>
    /\ settings = DEFAULT_SETTINGS

---------------------------------------------------------------------------
(* Duplicate line down / up (the selection-aware handlers).                *)

\* The lines startLine..endLine of d.
linesToDuplicate(d, startLine, endLine) ==
    [k \in 1..(endLine - startLine + 1) |-> getLine(d, startLine + k - 1)]

\* Mutant: the copy is inserted without the line break in front of it.
dupDownReplaceRange_NoLineBreak(d, selection) ==
    LET startLine == Min(selection.anchor.line, selection.head.line)
        endLine == Max(selection.anchor.line, selection.head.line)
        at == Pos(endLine, Len(getLine(d, endLine)))
    IN replaceRange(d, JoinLines(linesToDuplicate(d, startLine, endLine)), at, at)

\* Mutant: the copy is inserted at column 0 of line endLine, not at its end.
dupDownReplaceRange_AtLineStart(d, selection) ==
    LET startLine == Min(selection.anchor.line, selection.head.line)
        endLine == Max(selection.anchor.line, selection.head.line)
        at == Pos(endLine, 0)
    IN replaceRange(d, <<NL>> \o JoinLines(linesToDuplicate(d, startLine, endLine)),
                    at, at)

\* The edit of one selection: the copy goes in after the end of line endLine.
dupDownReplaceRange(d, selection) ==
    LET startLine == Min(selection.anchor.line, selection.head.line)
        endLine == Max(selection.anchor.line, selection.head.line)
        at == Pos(endLine, Len(getLine(d, endLine)))
    IN replaceRange(d, <<NL>> \o JoinLines(linesToDuplicate(d, startLine, endLine)),
                    at, at)

\* Mutant: the anchor column is carried over whatever line the anchor was on.
dupDownNewSelection_KeepAnchorCh(d, selection) ==
    LET startLine == Min(selection.anchor.line, selection.head.line)
        endLine == Max(selection.anchor.line, selection.head.line)
        linesCount == endLine - startLine + 1
    IN Sel(Pos(endLine + 1, selection.anchor.ch),
           Pos(endLine + linesCount,
               IF selection.head.line = endLine THEN selection.head.ch
               ELSE Len(getLine(d, endLine))))

\* Mutant: the selection stays on the original lines.
dupDownNewSelection_OnOriginal(d, selection) ==
    LET startLine == Min(selection.anchor.line, selection.head.line)
        endLine == Max(selection.anchor.line, selection.head.line)
    IN Sel(Pos(startLine,
               IF selection.anchor.line = startLine THEN selection.anchor.ch ELSE 0),
           Pos(endLine,
               IF selection.head.line = endLine THEN selection.head.ch
               ELSE Len(getLine(d, endLine))))

\* The selection pushed for one selection; d is the document after its edit.
dupDownNewSelection(d, selection) ==
    LET startLine == Min(selection.anchor.line, selection.head.line)
        endLine == Max(selection.anchor.line, selection.head.line)
        linesCount == endLine - startLine + 1
    IN Sel(Pos(endLine + 1,
               IF selection.anchor.line = startLine THEN selection.anchor.ch ELSE 0),
           Pos(endLine + linesCount,
               IF selection.head.line = endLine THEN selection.head.ch
               ELSE Len(getLine(d, endLine))))

\* selections.forEach(...): the edits are applied one after the other, each
\* with the coordinates the selection had when the command started.
RECURSIVE dupDownForEach(_, _, _, _)
dupDownForEach(d, selections, i, newSelections) ==
    IF i > Len(selections) THEN [doc |-> d, newSelections |-> newSelections]
    ELSE LET d2 == dupDownReplaceRange(d, selections[i])
         IN dupDownForEach(d2, selections, i + 1,
                Append(newSelections, dupDownNewSelection(d2, selections[i])))

handleDuplicateLineDown(checking, d, ss) ==
    IF checking THEN [doc |-> d, sels |-> ss, ret |-> TRUE, issued |-> <<>>]
    ELSE LET r == dupDownForEach(d, listSelections(ss), 1, <<>>)
         IN [doc |-> r.doc, sels |-> setSelections(r.doc, r.newSelections),
             ret |-> TRUE, issued |-> r.newSelections]

\* Mutant: the copy goes in above the line before the block.
dupUpReplaceRange_OneLineUp(d, selection) ==
    LET startLine == Min(selection.anchor.line, selection.head.line)
        endLine == Max(selection.anchor.line, selection.head.line)
        at == Pos(Max(startLine - 1, 0), 0)
    IN replaceRange(d, JoinLines(linesToDuplicate(d, startLine, endLine)) \o <<NL>>,
                    at, at)

\* The edit of one selection: the copy goes in at column 0 of line startLine.
dupUpReplaceRange(d, selection) ==
    LET startLine == Min(selection.anchor.line, selection.head.line)
        endLine == Max(selection.anchor.line, selection.head.line)
        at == Pos(startLine, 0)
    IN replaceRange(d, JoinLines(linesToDuplicate(d, startLine, endLine)) \o <<NL>>,
                    at, at)

\* Mutant: the new selection is moved down by the number of duplicated lines.
dupUpNewSelection_Shifted(d, selection) ==
    LET startLine == Min(selection.anchor.line, selection.head.line)
        endLine == Max(selection.anchor.line, selection.head.line)
        linesCount == endLine - startLine + 1
    IN Sel(Pos(startLine + linesCount,
               IF selection.anchor.line = startLine THEN selection.anchor.ch ELSE 0),
           Pos(endLine + linesCount,
               IF selection.head.line = endLine THEN selection.head.ch
               ELSE Len(getLine(d, endLine))))

\* The selection pushed for one selection; d is the document after its edit.
dupUpNewSelection(d, selection) ==
    LET startLine == Min(selection.anchor.line, selection.head.line)
        endLine == Max(selection.anchor.line, selection.head.line)
        linesCount == endLine - startLine + 1
    IN Sel(Pos(startLine,
               IF selection.anchor.line = startLine THEN selection.anchor.ch ELSE 0),
           Pos(startLine + linesCount - 1,
               IF selection.head.line = endLine THEN selection.head.ch
               ELSE Len(getLine(d, endLine))))

RECURSIVE dupUpForEach(_, _, _, _)
dupUpForEach(d, selections, i, newSelections) ==
    IF i > Len(selections) THEN [doc |-> d, newSelections |-> newSelections]
    ELSE LET d2 == dupUpReplaceRange(d, selections[i])
         IN dupUpForEach(d2, selections, i + 1,
                Append(newSelections, dupUpNewSelection(d2, selections[i])))

handleDuplicateLineUp(checking, d, ss) ==
    IF checking THEN [doc |-> d, sels |-> ss, ret |-> TRUE, issued |-> <<>>]
    ELSE LET r == dupUpForEach(d, listSelections(ss), 1, <<>>)
         IN [doc |-> r.doc, sels |-> setSelections(r.doc, r.newSelections),
             ret |-> TRUE, issued |-> r.newSelections]

\* The commands act on documents within the bound, so that the document,
\* which every duplication lengthens, stays finite.
DuplicateLineDown ==
    \E checking \in BOOLEAN :
        LET r == handleDuplicateLineDown(checking, doc, sels)
        IN /\ Len(doc) <= DupMaxLines
           /\ doc' = r.doc
           /\ sels' = r.sels
           /\ last' = Record("duplicateLineDown", checking, r.ret, r.issued)
           /\ run' = EndRun(checking)
           /\ UNCHANGED <<settings, selectLineCount, lastSelectedLine, lastSelectedWord>>

DuplicateLineUp ==
    \E checking \in BOOLEAN :
        LET r == handleDuplicateLineUp(checking, doc, sels)
        IN /\ Len(doc) <= DupMaxLines
           /\ doc' = r.doc
           /\ sels' = r.sels
           /\ last' = Record("duplicateLineUp", checking, r.ret, r.issued)
           /\ run' = EndRun(checking)
           /\ UNCHANGED <<settings, selectLineCount, lastSelectedLine, lastSelectedWord>>

InitDup ==
    /\ doc \in DocsOver({"a"}, DupMaxLines, DupMaxLen)
    /\ sels \in SingleSelections(doc)
    /\ InitPlugin
    /\ last = NoRecord(doc, sels)
    /\ run = NoRun

NextDup == DuplicateLineDown \/ DuplicateLineUp

SpecDup == InitDup /\ [][NextDup]_vars

---------------------------------------------------------------------------
(* Duplicate line down / up with a single selection: C1 - C4.              *)

\* The latest invocation executed duplicate-line-down on a single selection.
DupDownDone ==
    /\ last.cmd = "duplicateLineDown"
    /\ ~last.checking
    /\ Len(last.sels) = 1

DupUpDone ==
    /\ last.cmd = "duplicateLineUp"
    /\ ~last.checking
    /\ Len(last.sels) = 1

\* First and last line of the selection the latest invocation started from.
LastA == Min(last.sels[1].anchor.line, last.sels[1].head.line)

LastB == Max(last.sels[1].anchor.line, last.sels[1].head.line)

LastN == LastB - LastA + 1

\* The lines [0,b], then [a,b] again, then (b,end] of document old.
BlockTwice(old, a, b) ==
    SubSeq(old, 1, b + 1) \o SubSeq(old, a + 1, b + 1) \o SubSeq(old, b + 2, Len(old))

\* C1: duplicate-line-down with a single selection spanning lines [a,b]
\* leaves the original lines 0..b, then the lines a..b again, then the
\* original lines b+1..end; the line count grows by b-a+1.
C1_DuplicateDownInsertsCopyBelow ==
    DupDownDone =>
        /\ doc = BlockTwice(last.doc, LastA, LastB)
        /\ Len(doc) = Len(last.doc) + LastN
        /\ \A i \in 0..LastB : getLine(doc, i) = getLine(last.doc, i)
        /\ \A i \in (LastB + 1)..(Len(last.doc) - 1) :
               getLine(doc, i + LastN) = getLine(last.doc, i)

\* A multi-line block with differing lines and a line below it was duplicated.
C1_Witness ==
    /\ DupDownDone
    /\ LastA < LastB
    /\ LastB + 1 < Len(last.doc)
    /\ getLine(last.doc, LastA) # getLine(last.doc, LastB)
    /\ getLine(last.doc, LastB + 1) # getLine(last.doc, LastA)

\* The host edit that deletes the lines from..to with the line break before them.
deleteLines(d, from, to) ==
    replaceRange(d, <<>>, Pos(from - 1, Len(getLine(d, from - 1))),
                 Pos(to, Len(getLine(d, to))))

\* C2: deleting the b-a+1 inserted lines (b+1 .. 2b-a+1) after
\* duplicate-line-down gives back the document the command started from.
C2_DuplicateDownRoundTrip ==
    DupDownDone => deleteLines(doc, LastB + 1, 2 * LastB - LastA + 1) = last.doc

\* A block in the middle of the document, selected backwards, was duplicated.
C2_Witness ==
    /\ DupDownDone
    /\ last.sels[1].head.line < last.sels[1].anchor.line
    /\ LastA > 0
    /\ Len(doc) = Len(last.doc) + LastN
    /\ \E i \in 0..(Len(last.doc) - 1) : Len(getLine(last.doc, i)) > 0

\* C3: after duplicate-line-down the selection set is one selection on the
\* inserted copy: anchor on line b+1, head on line b+n; the anchor column
\* is the original one if the anchor was on line a and 0 otherwise; the
\* head column is the original one if the head was on line b; both lie
\* within their lines.
C3_DuplicateDownSelection ==
    DupDownDone =>
        LET s == last.sels[1] IN
        /\ Len(sels) = 1
        /\ sels[1].anchor.line = LastB + 1
        /\ sels[1].head.line = LastB + LastN
        /\ sels[1].anchor.ch = IF s.anchor.line = LastA THEN s.anchor.ch ELSE 0
        /\ s.head.line = LastB => sels[1].head.ch = s.head.ch
        /\ sels[1].anchor.ch <= Len(getLine(doc, LastB + 1))
        /\ sels[1].head.ch <= Len(getLine(doc, LastB + LastN))

\* A backward multi-line selection with a non-zero anchor column was duplicated.
C3_Witness ==
    /\ DupDownDone
    /\ last.sels[1].head.line < last.sels[1].anchor.line
    /\ last.sels[1].anchor.ch > 0
    /\ Len(getLine(last.doc, LastA)) > 0
    /\ sels[1].anchor = Pos(LastB + 1, 0)

\* The selection moved down by n lines.
ShiftSel(s, n) ==
    Sel(Pos(s.anchor.line + n, s.anchor.ch), Pos(s.head.line + n, s.head.ch))

\* C4 as stated: duplicate-line-up inserts the copy before line a and the
\* resulting selection is the original one moved down by n lines.
C4_DuplicateUpShiftsSelection ==
    DupUpDone =>
        /\ doc = BlockTwice(last.doc, LastA, LastB)
        /\ sels = <<ShiftSel(last.sels[1], LastN)>>

\* C4 amended: duplicate-line-up inserts the copy of lines a..b before line
\* a, and the resulting selection is on the line indices a..b (anchor on
\* line a, head on line b), which hold the inserted copy, with the original
\* text on lines a+n..b+n below it; a selection whose anchor was on line a
\* and whose head was on line b keeps its coordinates.
C4_DuplicateUpSelectionStays ==
    DupUpDone =>
        LET s == last.sels[1] IN
        /\ doc = BlockTwice(last.doc, LastA, LastB)
        /\ \A i \in LastA..LastB :
               /\ getLine(doc, i) = getLine(last.doc, i)
               /\ getLine(doc, i + LastN) = getLine(last.doc, i)
        /\ Len(sels) = 1
        /\ sels[1].anchor.line = LastA
        /\ sels[1].head.line = LastB
        /\ sels[1].anchor.ch = IF s.anchor.line = LastA THEN s.anchor.ch ELSE 0
        /\ sels[1].head.ch = IF s.head.line = LastB THEN s.head.ch
                              ELSE Len(getLine(last.doc, LastB))
        /\ (s.anchor.line = LastA /\ s.head.line = LastB) => sels = <<s>>

\* A multi-line block below the first line was duplicated upwards.
C4_Witness ==
    /\ DupUpDone
    /\ LastA < LastB
    /\ LastA > 0
    /\ getLine(last.doc, LastA) # getLine(last.doc, LastB)
    /\ Len(doc) = Len(last.doc) + LastN


---------------------------------------------------------------------------
(* Select line, and the pointer-down event that resets it.                 *)

\* if (!editor.somethingSelected()) { selectLineCount = 0; lastSelectedLine = currentLine }
selectLineReset(ss, count, lastLine) ==
    LET cursor == getCursor(ss)
        currentLine == cursor.line
    IN IF ~somethingSelected(ss)
       THEN [selectLineCount |-> 0, lastSelectedLine |-> currentLine]
       ELSE [selectLineCount |-> count, lastSelectedLine |-> lastLine]

\* The two positions handed to setSelection, before the host clips them.
selectLineRange(count, lastLine) ==
    IF count = 0
    THEN <<Sel(Pos(lastLine, 0), Pos(lastLine + 1, 0))>>
    ELSE <<Sel(Pos(lastLine, 0), Pos(lastLine + count + 1, 0))>>

\* Mutant: every invocation selects one line, the count is not added.
selectLineSetSelection_NoGrowth(d, count, lastLine) ==
    setSelection(d, Pos(lastLine, 0), Pos(lastLine + 1, 0))

\* The selection issued for the fields as they are after the reset.
selectLineSetSelection(d, count, lastLine) ==
    IF count = 0
    THEN setSelection(d, Pos(lastLine, 0), Pos(lastLine + 1, 0))
    ELSE setSelection(d, Pos(lastLine, 0), Pos(lastLine + count + 1, 0))

\* Mutant: the invocation is counted in checking mode too.
handleSelectLine_CountsWhenChecking(checking, d, ss, count, lastLine) ==
    IF checking
    THEN [sels |-> ss, selectLineCount |-> count + 1, lastSelectedLine |-> lastLine,
          ret |-> TRUE, issued |-> <<>>]
    ELSE LET f == selectLineReset(ss, count, lastLine)
         IN [sels |-> selectLineSetSelection(d, f.selectLineCount, f.lastSelectedLine),
             selectLineCount |-> f.selectLineCount + 1,
             lastSelectedLine |-> f.lastSelectedLine,
             ret |-> TRUE,
             issued |-> selectLineRange(f.selectLineCount, f.lastSelectedLine)]

handleSelectLine(checking, d, ss, count, lastLine) ==
    IF checking
    THEN [sels |-> ss, selectLineCount |-> count, lastSelectedLine |-> lastLine,
          ret |-> TRUE, issued |-> <<>>]
    ELSE LET f == selectLineReset(ss, count, lastLine)
         IN [sels |-> selectLineSetSelection(d, f.selectLineCount, f.lastSelectedLine),
             selectLineCount |-> f.selectLineCount + 1,
             lastSelectedLine |-> f.lastSelectedLine,
             ret |-> TRUE,
             issued |-> selectLineRange(f.selectLineCount, f.lastSelectedLine)]

\* Mutant: the count of line-select invocations is left as it is.
onMouseDown_KeepsCount == [selectLineCount |-> selectLineCount, lastSelectedLine |-> -1]

\* The mousedown listener registered on the document.
onMouseDown == [selectLineCount |-> 0, lastSelectedLine |-> -1]

\* selectLineCount and the length of a run have no upper limit in the
\* program; the command is explored while both are below MaxCount.
SelectLine ==
    \E checking \in BOOLEAN :
        LET r == handleSelectLine(checking, doc, sels, selectLineCount, lastSelectedLine)
        IN /\ selectLineCount < MaxCount
           /\ run.k < MaxCount
           /\ sels' = r.sels
           /\ selectLineCount' = r.selectLineCount
           /\ lastSelectedLine' = r.lastSelectedLine
           /\ last' = Record("selectLine", checking, r.ret, r.issued)
           /\ run' = IF checking THEN run
                     ELSE IF run.active
                          THEN [run EXCEPT !.k = run.k + 1, !.reset = FALSE]
                     ELSE IF ~somethingSelected(sels)
                          THEN [active |-> TRUE, line |-> getCursor(sels).line,
                                k |-> 1, reset |-> FALSE, selected |-> TRUE]
                     ELSE [NoRun EXCEPT !.selected = TRUE]
           /\ UNCHANGED <<settings, doc, lastSelectedWord>>

\* A pointer-down anywhere in the window: the listener runs.  What the
\* host does with the pointer (placing the cursor, dragging out a
\* selection, or nothing when another component was hit) is
\* SelectionChange.
MouseDown ==
    /\ selectLineCount' = onMouseDown.selectLineCount
    /\ lastSelectedLine' = onMouseDown.lastSelectedLine
    /\ last' = Record("mousedown", FALSE, TRUE, <<>>)
    /\ run' = [NoRun EXCEPT !.reset = TRUE, !.selected = run.selected]
    /\ UNCHANGED <<settings, doc, sels, lastSelectedWord>>

\* The user changes the selection by other means (pointer or keyboard).
SelectionChange ==
    \E ss \in SingleSelections(doc) :
        /\ ss # sels
        /\ sels' = ss
        /\ last' = [NoRecord(doc, ss) EXCEPT !.cmd = "selectionChange",
                        !.selectLineCount = selectLineCount,
                        !.lastSelectedLine = lastSelectedLine,
                        !.lastSelectedWord = lastSelectedWord]
        /\ run' = EndRun(FALSE)
        /\ UNCHANGED <<settings, doc, selectLineCount, lastSelectedLine, lastSelectedWord>>

\* Documents whose lines are empty or not.
LineDocs == UNION {[1..k -> {<<>>, <<"a">>}] : k \in 1..LineMaxLines}

InitLine ==
    /\ doc \in LineDocs
    /\ sels \in SingleSelections(doc)
    /\ InitPlugin
    /\ last = NoRecord(doc, sels)
    /\ run = NoRun

NextLine == SelectLine \/ MouseDown \/ SelectionChange

SpecLine == InitLine /\ [][NextLine]_vars

---------------------------------------------------------------------------
(* Line select: C5, C6.                                                    *)

\* Offset of the end of line n.
LineEnd(d, n) == LineStart(d, n) + Len(getLine(d, n))

\* C5: in a run of k line-select invocations that started with an empty
\* selection and the cursor on line L of an N-line document, the selection
\* runs from (L,0) to (L+k,0), or to the end of the document once L+k
\* reaches N: the lines L .. L+min(k,N-L)-1 are inside it and no character
\* of another line is; the anchor stays on line L.
C5_LineSelectRun ==
    run.active =>
        LET L == run.line
            k == run.k
            N == lineCount(doc)
            m == Min(k, N - L)
        IN /\ Len(sels) = 1
           /\ sels[1].anchor = Pos(L, 0)
           /\ sels[1].head = IF L + k < N THEN Pos(L + k, 0)
                              ELSE Pos(N - 1, Len(getLine(doc, N - 1)))
           /\ lastSelectedLine = L
           /\ \A l \in L..(L + m - 1) :
                  /\ SelFrom(doc, sels[1]) <= LineStart(doc, l)
                  /\ LineEnd(doc, l) <= SelTo(doc, sels[1])
           /\ \A l \in 0..(N - 1) :
                  (l < L \/ l >= L + m) =>
                      \/ LineEnd(doc, l) <= SelFrom(doc, sels[1])
                      \/ SelTo(doc, sels[1]) <= LineStart(doc, l)

\* A run grew line by line from the first line until it reached the end of
\* a document of three or more lines.
C5_Witness ==
    /\ run.active
    /\ run.line = 0
    /\ run.k = lineCount(doc)
    /\ run.k >= 3
    /\ last.cmd = "selectLine"
    /\ ~last.checking
    /\ last.sels = <<Sel(Pos(0, 0), Pos(run.k - 1, 0))>>

\* C6: a pointer-down leaves the machine in IDLE, and the line-select
\* invocation that follows selects the line the cursor is on, from its
\* column 0 to column 0 of the next line, whether or not something is
\* selected when it runs.
C6_LineSelectAfterPointerDown ==
    /\ last.cmd = "mousedown" => selectLineCount = 0
    /\ (last.cmd = "selectLine" /\ ~last.checking /\ last.afterPointerDown) =>
           LET c == getCursor(last.sels).line
           IN sels = setSelection(doc, Pos(c, 0), Pos(c + 1, 0))


---------------------------------------------------------------------------
(* Insert cursor below / above.                                            *)

\* Mutant: the heads of the selections are kept, not their anchors.
anchorsOf_Heads(ss) == [i \in 1..Len(ss) |-> ss[i].head]

\* editor.listSelections().map((selection) => selection.anchor)
anchorsOf(ss) == [i \in 1..Len(ss) |-> ss[i].anchor]

\* newCursors.map((pos) => ({ anchor: pos, head: pos }))
cursorsAt(ps) == [i \in 1..Len(ps) |-> Sel(ps[i], ps[i])]

\* Mutant: the column of the anchor is used as it is.
cursorBelow_NoClamp(d, selection) ==
    LET lineBelow == selection.anchor.line + 1
    IN IF lineBelow < lineCount(d)
       THEN <<Pos(lineBelow, selection.anchor.ch)>>
       ELSE <<>>

\* The body of the loop: the cursors one selection adds, one or none.
cursorBelow(d, selection) ==
    LET lineBelow == selection.anchor.line + 1
    IN IF lineBelow < lineCount(d)
       THEN <<Pos(lineBelow, Min(selection.anchor.ch, Len(getLine(d, lineBelow))))>>
       ELSE <<>>

\* Mutant: no cursor is put on line 0.
cursorAbove_NotOnFirstLine(d, selection) ==
    LET lineAbove == selection.anchor.line - 1
    IN IF lineAbove > 0
       THEN <<Pos(lineAbove, Min(selection.anchor.ch, Len(getLine(d, lineAbove))))>>
       ELSE <<>>

cursorAbove(d, selection) ==
    LET lineAbove == selection.anchor.line - 1
    IN IF lineAbove >= 0
       THEN <<Pos(lineAbove, Min(selection.anchor.ch, Len(getLine(d, lineAbove))))>>
       ELSE <<>>

\* for (const selection of editor.listSelections()) { ... newCursors.push(...) }
RECURSIVE cursorsBelowForEach(_, _, _, _)
cursorsBelowForEach(d, selections, i, newCursors) ==
    IF i > Len(selections) THEN newCursors
    ELSE cursorsBelowForEach(d, selections, i + 1,
                             newCursors \o cursorBelow(d, selections[i]))

RECURSIVE cursorsAboveForEach(_, _, _, _)
cursorsAboveForEach(d, selections, i, newCursors) ==
    IF i > Len(selections) THEN newCursors
    ELSE cursorsAboveForEach(d, selections, i + 1,
                             newCursors \o cursorAbove(d, selections[i]))

handleInsertCursorBelow(checking, d, ss) ==
    IF checking THEN [sels |-> ss, ret |-> TRUE, issued |-> <<>>]
    ELSE LET newCursors ==
                 cursorsBelowForEach(d, listSelections(ss), 1, anchorsOf(listSelections(ss)))
         IN [sels |-> setSelections(d, cursorsAt(newCursors)), ret |-> TRUE,
             issued |-> cursorsAt(newCursors)]

handleInsertCursorAbove(checking, d, ss) ==
    IF checking THEN [sels |-> ss, ret |-> TRUE, issued |-> <<>>]
    ELSE LET newCursors ==
                 cursorsAboveForEach(d, listSelections(ss), 1, anchorsOf(listSelections(ss)))
         IN [sels |-> setSelections(d, cursorsAt(newCursors)), ret |-> TRUE,
             issued |-> cursorsAt(newCursors)]

\* The commands act on selection sets within the bound, so that the set,
\* which every invocation can double, stays finite.
InsertCursorBelow ==
    \E checking \in BOOLEAN :
        LET r == handleInsertCursorBelow(checking, doc, sels)
        IN /\ Len(sels) <= MaxSels
           /\ sels' = r.sels
           /\ last' = Record("insertCursorBelow", checking, r.ret, r.issued)
           /\ run' = EndRun(checking)
           /\ UNCHANGED <<settings, doc, selectLineCount, lastSelectedLine, lastSelectedWord>>

InsertCursorAbove ==
    \E checking \in BOOLEAN :
        LET r == handleInsertCursorAbove(checking, doc, sels)
        IN /\ Len(sels) <= MaxSels
           /\ sels' = r.sels
           /\ last' = Record("insertCursorAbove", checking, r.ret, r.issued)
           /\ run' = EndRun(checking)
           /\ UNCHANGED <<settings, doc, selectLineCount, lastSelectedLine, lastSelectedWord>>

\* The selections the fan-out starts from: a cursor, or a selection from a
\* position to the end of its line.
CursorSelections(d) ==
    UNION {{Sel(a, Pos(a.line, c)) : c \in {a.ch, Len(getLine(d, a.line))}} :
           a \in Positions(d)}

InitCursor ==
    /\ doc \in DocsOver({"a"}, CurMaxLines, CurMaxLen)
    /\ sels \in UNION {[1..k -> CursorSelections(doc)] : k \in 1..MaxSels}
    /\ InitPlugin
    /\ last = NoRecord(doc, sels)
    /\ run = NoRun

NextCursor == InsertCursorBelow \/ InsertCursorAbove

SpecCursor == InitCursor /\ [][NextCursor]_vars

---------------------------------------------------------------------------
(* Cursor fan-out: C7 - C9.                                                *)

FanOutDone ==
    /\ last.cmd \in {"insertCursorBelow", "insertCursorAbove"}
    /\ ~last.checking

\* +1 for insert-cursor-below, -1 for insert-cursor-above.
FanOutDir == IF last.cmd = "insertCursorBelow" THEN 1 ELSE -1

\* The adjacent line of selection s exists in document d.
HasAdjacent(d, s, dir) ==
    /\ s.anchor.line + dir >= 0
    /\ s.anchor.line + dir < lineCount(d)

\* The selections of ss that have an adjacent line, in the order of ss.
WithAdjacent(d, ss, dir) == SelectSeq(ss, LAMBDA s : HasAdjacent(d, s, dir))

\* The cursors the latest fan-out added behind those of the selections ss
\* it started from.
Added(ss, result) == SubSeq(result, Len(ss) + 1, Len(result))

InBounds(d, p) ==
    /\ p.line >= 0
    /\ p.line < lineCount(d)
    /\ p.ch >= 0
    /\ p.ch <= Len(getLine(d, p.line))

C8_FanOutClamp ==
    FanOutDone =>
        LET old == last.sels
            src == WithAdjacent(doc, old, FanOutDir)
            new == Added(old, last.issued)
        IN /\ Len(new) = Len(src)
           /\ \A j \in 1..Len(src) :
                  new[j].anchor.ch =
                      Min(src[j].anchor.ch,
                          Len(getLine(doc, src[j].anchor.line + FanOutDir)))
           /\ \A i \in 1..Len(last.issued) :
                  /\ InBounds(doc, last.issued[i].anchor)
                  /\ InBounds(doc, last.issued[i].head)
           /\ sels = last.issued

\* A cursor went below onto a shorter line: its column is the length of
\* that line.
C8_Witness ==
    /\ FanOutDone
    /\ last.cmd = "insertCursorBelow"
    /\ Len(last.sels) = 1
    /\ Len(sels) = 2
    /\ sels[2].anchor.ch < last.sels[1].anchor.ch
    /\ sels[2].anchor.ch = Len(getLine(doc, sels[2].anchor.line))

\* What the command of the latest invocation adds for the selections ss.
FanOutAdded(ss) ==
    Added(ss, IF last.cmd = "insertCursorBelow"
              THEN handleInsertCursorBelow(FALSE, doc, ss).issued
              ELSE handleInsertCursorAbove(FALSE, doc, ss).issued)

\* C9: a selection on the last line (below) or on line 0 (above) adds no
\* cursor, and the cursors added for the other selections are those the
\* command adds when the selections at the edge are left out; when no
\* selection has an adjacent line the result is the cursors at the anchors
\* of the selections, which is the set itself when all were cursors.
C9_FanOutEdge ==
    FanOutDone =>
        LET old == last.sels
            src == WithAdjacent(doc, old, FanOutDir)
        IN /\ Len(sels) - Len(old) = Len(src)
           /\ Added(old, sels) = FanOutAdded(src)
           /\ \A j \in 1..Len(src) :
                  Added(old, sels)[j].anchor.line = src[j].anchor.line + FanOutDir
           /\ Len(src) = 0 =>
                  /\ sels = cursorsAt(anchorsOf(old))
                  /\ (\A i \in 1..Len(old) : old[i].anchor = old[i].head) => sels = old

\* A selection at the edge came before one that has an adjacent line.
C9_Witness ==
    /\ FanOutDone
    /\ Len(last.sels) = 2
    /\ ~HasAdjacent(doc, last.sels[1], FanOutDir)
    /\ HasAdjacent(doc, last.sels[2], FanOutDir)
    /\ Len(sels) = 3
    /\ sels[3].anchor.line = last.sels[2].anchor.line + FanOutDir


---------------------------------------------------------------------------
(* Select current word or expand selection.                                *)

\* line.lastIndexOf(" ", cursor.ch - 1) + 1
wordStartOf(line, ch) == lastIndexOf(line, <<" ">>, ch - 1) + 1

\* line.indexOf(" ", cursor.ch)
wordEndOf(line, ch) == indexOf(line, <<" ">>, ch)

\* The word under the cursor: line.slice(wordStart, wordEnd === -1 ? line.length : wordEnd)
wordAt(line, ch) ==
    slice(line, wordStartOf(line, ch),
          IF wordEndOf(line, ch) = -1 THEN Len(line) ELSE wordEndOf(line, ch))

\* The branch of an empty selection text: the selection that is issued.
selectCurrentWord(d, ss) ==
    LET cursor == getCursor(ss)
        line == getLine(d, cursor.line)
        wordStart == wordStartOf(line, cursor.ch)
        word == wordAt(line, cursor.ch)
    IN <<Sel(Pos(cursor.line, wordStart), Pos(cursor.line, wordStart + Len(word)))>>

\* The branch of a selection text: the selection set with the next
\* occurrence appended; ss itself when there is none.
expandToNextOccurrence(d, ss) ==
    LET cursor == getCursor(ss)
        line == getLine(d, cursor.line)
        selectedText == getSelection(d, ss)
        newSelections == listSelections(ss)
        lastSelection == newSelections[Len(newSelections)]
        lastEndIndex == lastSelection.head.ch
        nextIndex == indexOf(line, selectedText, lastEndIndex)
    IN IF nextIndex # -1
       THEN Append(newSelections,
                   Sel(Pos(cursor.line, nextIndex),
                       Pos(cursor.line, nextIndex + Len(selectedText))))
       ELSE newSelections

handleSelectWordOrExpand(checking, d, ss) ==
    IF checking THEN [sels |-> ss, ret |-> TRUE, issued |-> <<>>]
    ELSE IF getSelection(d, ss) # <<>>
    THEN LET newSelections == expandToNextOccurrence(d, ss)
         IN IF newSelections # ss
            THEN [sels |-> setSelections(d, newSelections), ret |-> TRUE,
                  issued |-> newSelections]
            ELSE [sels |-> ss, ret |-> TRUE, issued |-> <<>>]
    ELSE [sels |-> setSelections(d, selectCurrentWord(d, ss)), ret |-> TRUE,
          issued |-> selectCurrentWord(d, ss)]

SelectWordOrExpand ==
    \E checking \in BOOLEAN :
        LET r == handleSelectWordOrExpand(checking, doc, sels)
        IN /\ sels' = r.sels
           /\ last' = Record("selectWordOrExpand", checking, r.ret, r.issued)
           /\ run' = EndRun(checking)
           /\ UNCHANGED <<settings, doc, selectLineCount, lastSelectedLine, lastSelectedWord>>

InitWord ==
    /\ doc \in DocsOver({"a", " "}, WordMaxLines, WordMaxLen)
    /\ sels \in SingleSelections(doc)
    /\ InitPlugin
    /\ last = NoRecord(doc, sels)
    /\ run = NoRun

NextWord == SelectWordOrExpand

SpecWord == InitWord /\ [][NextWord]_vars

---------------------------------------------------------------------------
(* Word select: C10.                                                       *)

\* The latest invocation executed word-select on a single empty selection.
WordSelectDone ==
    /\ last.cmd = "selectWordOrExpand"
    /\ ~last.checking
    /\ Len(last.sels) = 1
    /\ last.sels[1].anchor = last.sels[1].head

\* C10: word-select with an empty selection and the cursor at column c
\* selects a span [s,e) of the cursor line with s <= c <= e that holds no
\* space and is maximal (a space, if anything, before s and at e), as the
\* single selection of the set, for every column c from 0 to the length of
\* the line.
C10_WordUnderCursor ==
    WordSelectDone =>
        LET cursor == getCursor(last.sels)
            line == getLine(doc, cursor.line)
            s == sels[1].anchor.ch
            e == sels[1].head.ch
        IN /\ Len(sels) = 1
           /\ sels[1].anchor.line = cursor.line
           /\ sels[1].head.line = cursor.line
           /\ s <= cursor.ch
           /\ cursor.ch <= e
           /\ \A i \in (s + 1)..e : line[i] # " "
           /\ s > 0 => line[s] = " "
           /\ e < Len(line) => line[e + 1] = " "

---------------------------------------------------------------------------
(* Word expand: C11.                                                       *)

\* The latest invocation executed word-expand: the primary selection it
\* started from had a text.
WordExpandDone ==
    /\ last.cmd = "selectWordOrExpand"
    /\ ~last.checking
    /\ getSelection(last.doc, last.sels) # <<>>

\* The columns [from, to) of selection s, which lies on one line.
ColFrom(s) == Min(s.anchor.ch, s.head.ch)

ColTo(s) == Max(s.anchor.ch, s.head.ch)

\* The columns at or after column c where text t occurs in line.
OccurrencesFrom(line, t, c) ==
    {k \in c..(Len(line) - Len(t)) : SubSeq(line, k + 1, k + Len(t)) = t}

\* C11: word-expand with a selection of text t, whichever its direction,
\* looks on the cursor's line for the first occurrence of t that starts at
\* or after the end column of the most recently added selection; if there
\* is one, the selection set is the old one with one selection on that
\* occurrence appended, which overlaps none of the old ones; if there is
\* none, the selection set is as it was; the document is as it was.
C11_WordExpandNextOccurrence ==
    WordExpandDone =>
        LET old == last.sels
            recent == old[Len(old)]
            l == getCursor(old).line
            t == getSelection(doc, old)
            occ == OccurrencesFrom(getLine(doc, l), t, ColTo(recent))
            next == CHOOSE k \in occ : \A m \in occ : k <= m
        IN /\ doc = last.doc
           /\ occ = {} => sels = old
           /\ occ # {} =>
                  /\ sels = Append(old, Sel(Pos(l, next), Pos(l, next + Len(t))))
                  /\ \A i \in 1..Len(old) :
                         \/ ColTo(old[i]) <= ColFrom(sels[Len(sels)])
                         \/ ColTo(sels[Len(sels)]) <= ColFrom(old[i])

---------------------------------------------------------------------------
(* Select all occurrences.  new RegExp(textToSelect, "g") reads the search *)
(* text as a pattern: "." stands for any character but a line break, "*"   *)
(* repeats the character before it, every other character of the          *)
(* documents explored here stands for itself.                              *)

\* new RegExp(pattern) throws a SyntaxError ("nothing to repeat") when a "*"
\* has no character before it that it can repeat.
regExpSyntaxError(pattern) ==
    \E i \in 1..Len(pattern) :
        /\ pattern[i] = "*"
        /\ (i = 1 \/ pattern[i - 1] = "*")

\* The pattern as the sequence of its characters, each repeated or not.
regExpAtoms(pattern) ==
    LET idx == SelectSeq([i \in 1..Len(pattern) |-> i], LAMBDA i : pattern[i] # "*")
    IN [k \in 1..Len(idx) |->
           [ch |-> pattern[idx[k]],
            star |-> idx[k] < Len(pattern) /\ pattern[idx[k] + 1] = "*"]]

regExpCharMatches(a, c) == IF a = "." THEN c # NL ELSE a = c

\* The backtracking matcher: the offset where the match of atoms[i..] that
\* starts at offset pos of text ends, -1 when there is none; a repeated
\* character takes as many characters as the rest of the pattern allows.
RECURSIVE regExpMatchAt(_, _, _, _)
regExpMatchAt(atoms, i, text, pos) ==
    IF i > Len(atoms) THEN pos
    ELSE IF ~atoms[i].star
    THEN IF pos < Len(text) /\ regExpCharMatches(atoms[i].ch, text[pos + 1])
         THEN regExpMatchAt(atoms, i + 1, text, pos + 1)
         ELSE -1
    ELSE LET reps == {n \in 0..(Len(text) - pos) :
                         \A j \in 1..n : regExpCharMatches(atoms[i].ch, text[pos + j])}
             fits == {n \in reps : regExpMatchAt(atoms, i + 1, text, pos + n) # -1}
         IN IF fits = {} THEN -1
            ELSE regExpMatchAt(atoms, i + 1, text,
                               pos + (CHOOSE n \in fits : \A m \in fits : n >= m))

\* while ((match = regex.exec(allText)) !== null) { ... }: the offsets the
\* loop visits.  exec looks for the first match at or after lastIndex and
\* sets lastIndex to its end; an empty match leaves lastIndex where it is,
\* so that the loop finds it again without end.
RECURSIVE regExpExecAll(_, _, _, _)
regExpExecAll(atoms, text, lastIndex, matches) ==
    LET found == {k \in lastIndex..Len(text) : regExpMatchAt(atoms, 1, text, k) # -1}
        index == CHOOSE k \in found : \A m \in found : k <= m
        end == regExpMatchAt(atoms, 1, text, index)
    IN IF found = {} THEN [outcome |-> "returned", matches |-> matches]
       ELSE IF end = index THEN [outcome |-> "hangs", matches |-> matches]
       ELSE regExpExecAll(atoms, text, end, Append(matches, index))

\* The search text: the selected text, or the word under the cursor.
textToSelectOf(d, ss) ==
    LET cursor == getCursor(ss)
        line == getLine(d, cursor.line)
        selectedText == getSelection(d, ss)
    IN IF selectedText # <<>> THEN selectedText ELSE wordAt(line, cursor.ch)

\* allText.slice(0, match.index).split("\n").length - 1
occurrenceLine(allText, index) == Len(SplitLines(slice(allText, 0, index))) - 1

\* Mutant: the line break itself is not taken off the column.
occurrenceCh_NoAdjust(allText, index) ==
    index - lastIndexOf(slice(allText, 0, index), <<NL>>, index)

\* match.index - allText.slice(0, match.index).lastIndexOf("\n") - 1
occurrenceCh(allText, index) ==
    index - lastIndexOf(slice(allText, 0, index), <<NL>>, index) - 1

\* The selection pushed for the match at offset index, as { anchor: start, head: end }.
occurrenceSelection(allText, textToSelect, index) ==
    Sel(Pos(occurrenceLine(allText, index), occurrenceCh(allText, index)),
        Pos(occurrenceLine(allText, index),
            occurrenceCh(allText, index) + Len(textToSelect)))

handleSelectAllOccurrences(checking, d, ss) ==
    IF checking THEN [sels |-> ss, ret |-> TRUE, issued |-> <<>>, outcome |-> "returned"]
    ELSE LET textToSelect == textToSelectOf(d, ss)
             allText == getValue(d)
             r == regExpExecAll(regExpAtoms(textToSelect), allText, 0, <<>>)
             selections == [k \in 1..Len(r.matches) |->
                               occurrenceSelection(allText, textToSelect, r.matches[k])]
         IN IF regExpSyntaxError(textToSelect)
            THEN [sels |-> ss, ret |-> FALSE, issued |-> <<>>, outcome |-> "throws"]
            ELSE IF r.outcome = "hangs"
            THEN [sels |-> ss, ret |-> FALSE, issued |-> <<>>, outcome |-> "hangs"]
            ELSE IF Len(selections) > 0
            THEN [sels |-> setSelections(d, selections), ret |-> TRUE,
                  issued |-> selections, outcome |-> "returned"]
            ELSE [sels |-> ss, ret |-> TRUE, issued |-> <<>>, outcome |-> "returned"]

\* An invocation that throws or hangs returns no value (ret is FALSE then)
\* and has handed nothing to the host.
SelectAllOccurrences ==
    \E checking \in BOOLEAN :
        LET r == handleSelectAllOccurrences(checking, doc, sels)
        IN /\ sels' = r.sels
           /\ last' = [Record("selectAllOccurrences", checking, r.ret, r.issued)
                           EXCEPT !.outcome = r.outcome]
           /\ run' = EndRun(checking)
           /\ UNCHANGED <<settings, doc, selectLineCount, lastSelectedLine, lastSelectedWord>>

\* The characters of the documents the search is explored on.
OccChars == {"a", ".", " "}

\* Every document whose text has at most OccMaxText characters, line
\* breaks included.
OccDocs == {SplitLines(v) : v \in StringsOver(OccChars \cup {NL}, OccMaxText)}

InitOcc ==
    /\ doc \in OccDocs
    /\ sels \in SingleSelections(doc)
    /\ InitPlugin
    /\ last = NoRecord(doc, sels)
    /\ run = NoRun

NextOcc == SelectAllOccurrences

SpecOcc == InitOcc /\ [][NextOcc]_vars

---------------------------------------------------------------------------
(* Select all occurrences: C12, C13.                                       *)

OccDone ==
    /\ last.cmd = "selectAllOccurrences"
    /\ ~last.checking

\* The search text of the latest invocation.
LastText == textToSelectOf(last.doc, last.sels)

\* The offsets where the text t, which is not empty, occurs in text as it
\* is, scanned from offset from on, each occurrence starting at or after
\* the end of the one before.
RECURSIVE LiteralOccurrences(_, _, _)
LiteralOccurrences(text, t, from) ==
    IF indexOf(text, t, from) = -1 THEN <<>>
    ELSE <<indexOf(text, t, from)>>
             \o LiteralOccurrences(text, t, indexOf(text, t, from) + Len(t))

\* The text of document d that selection s covers.
CoveredText(d, s) == SubSeq(getValue(d), SelFrom(d, s) + 1, SelTo(d, s))

\* C12: select-all-occurrences with a search text t that is not empty
\* replaces the selection set by one selection for each occurrence of t as
\* a literal substring of the document, scanned left to right without
\* overlap, in ascending order, and every selection covers the text t; so
\* also when t holds a character with a meaning in a pattern language.
C12_SelectAllLiteralOccurrences ==
    (OccDone /\ LastText # <<>>) =>
        LET occ == LiteralOccurrences(getValue(doc), LastText, 0)
        IN /\ last.outcome = "returned"
           /\ doc = last.doc
           /\ Len(sels) = Len(occ)
           /\ \A k \in 1..Len(sels) :
                  /\ SelFrom(doc, sels[k]) = occ[k]
                  /\ CoveredText(doc, sels[k]) = LastText

\* The offsets of the matches the latest invocation found.
LastMatches ==
    regExpExecAll(regExpAtoms(LastText), getValue(last.doc), 0, <<>>).matches

\* The number of line breaks of text before offset o.
NewlinesBefore(text, o) == Cardinality({i \in 1..o : text[i] = NL})

\* The offset just after the nearest line break before offset o, 0 when
\* there is none.
AfterNewlineBefore(text, o) ==
    LET nls == {i \in 1..o : text[i] = NL}
    IN IF nls = {} THEN 0 ELSE CHOOSE i \in nls : \A j \in nls : i >= j

\* The document "ab\ncab\nabc" with its first two characters selected.
ExampleDoc == <<<<"a", "b">>, <<"c", "a", "b">>, <<"a", "b", "c">>>>

ExampleResult ==
    handleSelectAllOccurrences(FALSE, ExampleDoc, <<Sel(Pos(0, 0), Pos(0, 2))>>).sels

\* C13: for every match of the search text at offset o of the document
\* text, the selection the handler produces starts at (line, ch), line
\* being the number of line breaks before o and ch being o less the offset
\* just after the nearest line break before o, and ends on the same line
\* at ch plus the length of the search text; (line, ch) is a position of
\* the document, the host leaves it as it is, and its offset is o.  When
\* the search text holds no line break the end is a position of the
\* document as well.  The document "ab\ncab\nabc" searched for "ab" gives
\* (0,0)-(0,2), (1,1)-(1,3), (2,0)-(2,2).
C13_OccurrenceMapping ==
    (OccDone /\ last.outcome = "returned" /\ last.issued # <<>>) =>
        LET text == getValue(doc)
        IN /\ Len(last.issued) = Len(LastMatches)
           /\ Len(sels) = Len(LastMatches)
           /\ \A k \in 1..Len(LastMatches) :
                  LET o == LastMatches[k]
                      line == NewlinesBefore(text, o)
                      ch == o - AfterNewlineBefore(text, o)
                  IN /\ last.issued[k].anchor = Pos(line, ch)
                     /\ last.issued[k].head = Pos(line, ch + Len(LastText))
                     /\ InBounds(doc, Pos(line, ch))
                     /\ sels[k].anchor = Pos(line, ch)
                     /\ posToOffset(doc, sels[k].anchor) = o
           /\ (\A i \in 1..Len(LastText) : LastText[i] # NL) => sels = last.issued
           /\ ExampleResult = <<Sel(Pos(0, 0), Pos(0, 2)), Sel(Pos(1, 1), Pos(1, 3)),
                                Sel(Pos(2, 0), Pos(2, 2))>>

\* Matches on the first line and, past column 0, on a later line.
C13_Witness ==
    /\ OccDone
    /\ last.outcome = "returned"
    /\ Len(sels) >= 2
    /\ sels[1].anchor.line = 0
    /\ sels[2].anchor.line >= 1
    /\ sels[2].anchor.ch >= 1
    /\ sels[2].head.ch > sels[2].anchor.ch

---------------------------------------------------------------------------
(* Insert line above / below.                                              *)

\* Mutant: the line break goes in at the cursor, not at column 0.
insertLineAboveReplaceRange_AtCursor(d, cursor) ==
    replaceRange(d, <<NL>>, Pos(cursor.line, cursor.ch), Pos(cursor.line, cursor.ch))

\* editor.replaceRange("\n", { line: cursor.line, ch: 0 })
insertLineAboveReplaceRange(d, cursor) ==
    replaceRange(d, <<NL>>, Pos(cursor.line, 0), Pos(cursor.line, 0))

handleInsertLineAbove(checking, d, ss) ==
    IF checking THEN [doc |-> d, sels |-> ss, ret |-> TRUE, issued |-> <<>>]
    ELSE LET cursor == getCursor(ss)
             d2 == insertLineAboveReplaceRange(d, cursor)
         IN [doc |-> d2, sels |-> setCursor(d2, Pos(cursor.line, 0)), ret |-> TRUE,
             issued |-> <<Sel(Pos(cursor.line, 0), Pos(cursor.line, 0))>>]

\* Mutant: nothing is inserted when there is no line below the cursor's.
insertLineBelowReplaceRange_OnlyBeforeLine(d, cursor) ==
    IF cursor.line + 1 < lineCount(d)
    THEN replaceRange(d, <<NL>>, Pos(cursor.line + 1, 0), Pos(cursor.line + 1, 0))
    ELSE d

\* editor.replaceRange("\n", { line: cursor.line + 1, ch: 0 })
insertLineBelowReplaceRange(d, cursor) ==
    replaceRange(d, <<NL>>, Pos(cursor.line + 1, 0), Pos(cursor.line + 1, 0))

handleInsertLineBelow(checking, d, ss) ==
    IF checking THEN [doc |-> d, sels |-> ss, ret |-> TRUE, issued |-> <<>>]
    ELSE LET cursor == getCursor(ss)
             d2 == insertLineBelowReplaceRange(d, cursor)
         IN [doc |-> d2, sels |-> setCursor(d2, Pos(cursor.line + 1, 0)), ret |-> TRUE,
             issued |-> <<Sel(Pos(cursor.line + 1, 0), Pos(cursor.line + 1, 0))>>]

\* The commands act on documents within the bound, so that the document,
\* which every insertion lengthens, stays finite.
InsertLineAbove ==
    \E checking \in BOOLEAN :
        LET r == handleInsertLineAbove(checking, doc, sels)
        IN /\ Len(doc) <= InsMaxLines
           /\ doc' = r.doc
           /\ sels' = r.sels
           /\ last' = Record("insertLineAbove", checking, r.ret, r.issued)
           /\ run' = EndRun(checking)
           /\ UNCHANGED <<settings, selectLineCount, lastSelectedLine, lastSelectedWord>>

InsertLineBelow ==
    \E checking \in BOOLEAN :
        LET r == handleInsertLineBelow(checking, doc, sels)
        IN /\ Len(doc) <= InsMaxLines
           /\ doc' = r.doc
           /\ sels' = r.sels
           /\ last' = Record("insertLineBelow", checking, r.ret, r.issued)
           /\ run' = EndRun(checking)
           /\ UNCHANGED <<settings, selectLineCount, lastSelectedLine, lastSelectedWord>>

InitInsert ==
    /\ doc \in DocsOver({"a"}, InsMaxLines, InsMaxLen)
    /\ sels \in SingleSelections(doc)
    /\ InitPlugin
    /\ last = NoRecord(doc, sels)
    /\ run = NoRun

NextInsert == InsertLineAbove \/ InsertLineBelow

SpecInsert == InitInsert /\ [][NextInsert]_vars

---------------------------------------------------------------------------
(* Insert line above / below: C14, C15.                                    *)

\* The line of the cursor the latest invocation started from.
LastCursorLine == getCursor(last.sels).line

\* Document new is document old with an empty line put in as line n.
EmptyLineInserted(old, new, n) ==
    /\ lineCount(new) = lineCount(old) + 1
    /\ getLine(new, n) = <<>>
    /\ \A i \in 0..(lineCount(old) - 1) :
           getLine(new, IF i < n THEN i ELSE i + 1) = getLine(old, i)

\* C14: insert-line-above with the cursor on line L gives a document whose
\* line L is empty, with every line i < L of the old document at index i
\* and every line i >= L at index i+1, and leaves one cursor, at (L, 0).
C14_InsertLineAbove ==
    (last.cmd = "insertLineAbove" /\ ~last.checking) =>
        /\ EmptyLineInserted(last.doc, doc, LastCursorLine)
        /\ sels = <<Sel(Pos(LastCursorLine, 0), Pos(LastCursorLine, 0))>>
        /\ last.issued = sels

\* The cursor was past column 0 of a line that has lines above and below.
C14_Witness ==
    /\ last.cmd = "insertLineAbove"
    /\ ~last.checking
    /\ LastCursorLine > 0
    /\ LastCursorLine < lineCount(last.doc) - 1
    /\ getCursor(last.sels).ch > 0
    /\ getLine(doc, LastCursorLine + 1) # <<>>

\* C15: insert-line-below with the cursor on line L, the last line
\* included, gives a document whose line L+1 is empty, with every line
\* i <= L of the old document at index i and every line i > L at index
\* i+1, and leaves one cursor, at (L+1, 0).
C15_InsertLineBelow ==
    (last.cmd = "insertLineBelow" /\ ~last.checking) =>
        /\ EmptyLineInserted(last.doc, doc, LastCursorLine + 1)
        /\ sels = <<Sel(Pos(LastCursorLine + 1, 0), Pos(LastCursorLine + 1, 0))>>
        /\ last.issued = sels

\* The cursor was on the last line of the document, which is not empty.
C15_Witness ==
    /\ last.cmd = "insertLineBelow"
    /\ ~last.checking
    /\ LastCursorLine = lineCount(last.doc) - 1
    /\ LastCursorLine > 0
    /\ getLine(last.doc, LastCursorLine) # <<>>
    /\ lineCount(doc) = lineCount(last.doc) + 1

---------------------------------------------------------------------------
(* Sort selected lines, ascending and descending.  The lines explored are  *)
(* over the characters "a" and "B", which the collation of localeCompare   *)
(* puts in the order a, B and the order of the code units in the order B,  *)
(* a.                                                                      *)

\* The place of a character in the collation.
collationKey(c) == IF c = "a" THEN 1 ELSE 2

\* String.prototype.localeCompare: negative, 0 or positive as x sorts
\* before, with or after y.
RECURSIVE localeCompare(_, _)
localeCompare(x, y) ==
    IF x = <<>> /\ y = <<>> THEN 0
    ELSE IF x = <<>> THEN -1
    ELSE IF y = <<>> THEN 1
    ELSE IF collationKey(x[1]) < collationKey(y[1]) THEN -1
    ELSE IF collationKey(x[1]) > collationKey(y[1]) THEN 1
    ELSE localeCompare(Tail(x), Tail(y))

\* The comparator of the command: (a, b) => a.localeCompare(b), or
\* (a, b) => b.localeCompare(a) for the reverse order.
sortCompare(a, b, reverse) == IF reverse THEN localeCompare(b, a) ELSE localeCompare(a, b)

\* Array.prototype.sort(compare): the stable sort; the element at index i
\* lands behind those that compare lower and those that compare equal and
\* stood before it.
sortLines(lines, reverse) ==
    LET place(i) ==
            1 + Cardinality({j \in 1..Len(lines) :
                                 \/ sortCompare(lines[j], lines[i], reverse) < 0
                                 \/ /\ sortCompare(lines[j], lines[i], reverse) = 0
                                    /\ j < i})
    IN [k \in 1..Len(lines) |-> lines[CHOOSE i \in 1..Len(lines) : place(i) = k]]

\* Mutant: the range that is replaced ends at the head of the selection.
sortReplaceRange_ToHead(d, selection, reverse) ==
    LET actualStartLine == Min(selection.anchor.line, selection.head.line)
        actualEndLine == Max(selection.anchor.line, selection.head.line)
        lines == linesToDuplicate(d, actualStartLine, actualEndLine)
    IN replaceRange(d, JoinLines(sortLines(lines, reverse)),
                    Pos(actualStartLine, 0),
                    Pos(actualEndLine,
                        IF selection.head.line = actualEndLine THEN selection.head.ch
                        ELSE selection.anchor.ch))

\* The edit of one selection: its lines, whole, are replaced by the sorted ones.
sortReplaceRange(d, selection, reverse) ==
    LET actualStartLine == Min(selection.anchor.line, selection.head.line)
        actualEndLine == Max(selection.anchor.line, selection.head.line)
        lines == linesToDuplicate(d, actualStartLine, actualEndLine)
    IN replaceRange(d, JoinLines(sortLines(lines, reverse)),
                    Pos(actualStartLine, 0),
                    Pos(actualEndLine, Len(getLine(d, actualEndLine))))

\* selections.forEach(...): the edits are applied one after the other.
RECURSIVE sortForEach(_, _, _, _)
sortForEach(d, selections, i, reverse) ==
    IF i > Len(selections) THEN d
    ELSE sortForEach(sortReplaceRange(d, selections[i], reverse), selections,
                     i + 1, reverse)

\* The editorCallback of sort-selected-lines (reverse: of
\* sort-selected-lines-reverse).  It sets no selection: the host carries
\* the selection set over the edits, here with its positions kept and
\* clipped to the new lines.
sortSelectedLines(d, ss, reverse) ==
    LET d2 == sortForEach(d, listSelections(ss), 1, reverse)
    IN [doc |-> d2, sels |-> setSelections(d2, ss)]

SortSelectedLines ==
    LET r == sortSelectedLines(doc, sels, FALSE)
    IN /\ doc' = r.doc
       /\ sels' = r.sels
       /\ last' = Record("sortSelectedLines", FALSE, TRUE, <<>>)
       /\ run' = EndRun(FALSE)
       /\ UNCHANGED <<settings, selectLineCount, lastSelectedLine, lastSelectedWord>>

SortSelectedLinesReverse ==
    LET r == sortSelectedLines(doc, sels, TRUE)
    IN /\ doc' = r.doc
       /\ sels' = r.sels
       /\ last' = Record("sortSelectedLinesReverse", FALSE, TRUE, <<>>)
       /\ run' = EndRun(FALSE)
       /\ UNCHANGED <<settings, selectLineCount, lastSelectedLine, lastSelectedWord>>

\* The lines of the documents the sort is explored on: an empty one, two
\* that differ in their first character, and one that another is a prefix of.
SortLineTexts == {<<>>, <<"a">>, <<"B">>, <<"a", "B">>}

InitSort ==
    /\ doc \in UNION {[1..k -> SortLineTexts] : k \in 1..SortMaxLines}
    /\ sels \in SingleSelections(doc)
    /\ InitPlugin
    /\ last = NoRecord(doc, sels)
    /\ run = NoRun

NextSort == SortSelectedLines \/ SortSelectedLinesReverse

SpecSort == InitSort /\ [][NextSort]_vars

---------------------------------------------------------------------------
(* Line sort with a single selection: C16.                                 *)

SortDone ==
    /\ last.cmd \in {"sortSelectedLines", "sortSelectedLinesReverse"}
    /\ Len(last.sels) = 1

\* Line x is not after line y in the collation: x is a prefix of y, or at
\* the first place where they differ x has the character that sorts first.
NotAfter(x, y) ==
    \/ Len(x) <= Len(y) /\ x = SubSeq(y, 1, Len(x))
    \/ \E i \in 1..Min(Len(x), Len(y)) :
           /\ SubSeq(x, 1, i - 1) = SubSeq(y, 1, i - 1)
           /\ (x[i] = "a" /\ y[i] = "B")

\* The lines from..to of d1 are those of d2 in some order.
SameLines(d1, d2, from, to) ==
    \A x \in {getLine(d1, i) : i \in from..to} \cup {getLine(d2, i) : i \in from..to} :
        Cardinality({i \in from..to : getLine(d1, i) = x})
            = Cardinality({i \in from..to : getLine(d2, i) = x})

\* C16: a line sort with a single selection spanning lines [a,b] replaces
\* the lines a..b by the same lines in non-decreasing order (non-increasing
\* for the reverse sort) of the comparison of strings the sort uses; the
\* line count and every line outside [a,b] are as they were, and the whole
\* of line b takes part whatever the column of the head.
C16_SortLines ==
    SortDone =>
        /\ lineCount(doc) = lineCount(last.doc)
        /\ \A i \in 0..(lineCount(doc) - 1) :
               (i < LastA \/ i > LastB) => getLine(doc, i) = getLine(last.doc, i)
        /\ SameLines(doc, last.doc, LastA, LastB)
        /\ \A i \in LastA..(LastB - 1) :
               IF last.cmd = "sortSelectedLines"
               THEN NotAfter(getLine(doc, i), getLine(doc, i + 1))
               ELSE NotAfter(getLine(doc, i + 1), getLine(doc, i))

\* Three lines out of order were sorted; the selection ended at column 0
\* of the last of them, before its text; in the order of the code units
\* the result would be another.
C16_Witness ==
    /\ SortDone
    /\ LastB - LastA = 2
    /\ doc # last.doc
    /\ Len(getLine(last.doc, LastB)) > 0
    /\ last.sels[1].head = Pos(LastB, 0)
    /\ \E i \in LastA..LastB : getLine(last.doc, i) = <<"a">>
    /\ \E i \in LastA..LastB : getLine(last.doc, i) = <<"B">>

---------------------------------------------------------------------------
(* Text case commands.  The characters explored: a letter in both cases,   *)
(* two characters without case (a space and a tab), and a letter whose     *)
(* upper-case form is two characters long.                                 *)

TAB == "\t"

\* String.prototype.toUpperCase of one character.
toUpperCaseChar(c) ==
    IF c = "a" THEN <<"A">>
    ELSE IF c = "s" THEN <<"S">>
    ELSE IF c = "ß" THEN <<"S", "S">>
    ELSE <<c>>

\* String.prototype.toLowerCase of one character.
toLowerCaseChar(c) ==
    IF c = "A" THEN <<"a">>
    ELSE IF c = "S" THEN <<"s">>
    ELSE <<c>>

RECURSIVE toUpperCase(_)
toUpperCase(str) ==
    IF str = <<>> THEN <<>> ELSE toUpperCaseChar(str[1]) \o toUpperCase(Tail(str))

RECURSIVE toLowerCase(_)
toLowerCase(str) ==
    IF str = <<>> THEN <<>> ELSE toLowerCaseChar(str[1]) \o toLowerCase(Tail(str))

\* String.prototype.split(" ")
RECURSIVE splitSpaces(_)
splitSpaces(str) ==
    IF indexOf(str, <<" ">>, 0) = -1 THEN <<str>>
    ELSE <<SubSeq(str, 1, indexOf(str, <<" ">>, 0))>>
             \o splitSpaces(SubSeq(str, indexOf(str, <<" ">>, 0) + 2, Len(str)))

\* Array.prototype.join(" ")
RECURSIVE joinSpaces(_)
joinSpaces(words) ==
    IF Len(words) = 0 THEN <<>>
    ELSE IF Len(words) = 1 THEN words[1]
    ELSE words[1] \o <<" ">> \o joinSpaces(Tail(words))

\* Mutant: the rest of the word is left as it is.
titleCaseWord_RestKept(word) ==
    toUpperCase(slice(word, 0, 1)) \o slice(word, 1, Len(word))

\* word.charAt(0).toUpperCase() + word.slice(1).toLowerCase()
titleCaseWord(word) ==
    toUpperCase(slice(word, 0, 1)) \o toLowerCase(slice(word, 1, Len(word)))

titleCase(selectedText) ==
    LET words == splitSpaces(selectedText)
    IN joinSpaces([k \in 1..Len(words) |-> titleCaseWord(words[k])])

\* char === char.toUpperCase() ? char.toLowerCase() : char.toUpperCase()
toggleCaseChar(char) ==
    IF <<char>> = toUpperCaseChar(char) THEN toLowerCaseChar(char)
    ELSE toUpperCaseChar(char)

\* selectedText.split("").map(...).join("")
RECURSIVE toggleCase(_)
toggleCase(selectedText) ==
    IF selectedText = <<>> THEN <<>>
    ELSE toggleCaseChar(selectedText[1]) \o toggleCase(Tail(selectedText))

\* The host's replaceSelection(text) on a selection set of one selection:
\* the text of the selection becomes text and the cursor is put behind it.
replaceSelection(d, ss, text) ==
    LET s == ss[Len(ss)]
        d2 == replaceRange(d, text, offsetToPos(d, SelFrom(d, s)),
                           offsetToPos(d, SelTo(d, s)))
    IN [doc |-> d2,
        sels |-> setCursor(d2, offsetToPos(d2, SelFrom(d, s) + Len(text)))]

handleTextCommands(checking, command, d, ss) ==
    IF checking THEN [doc |-> d, sels |-> ss, ret |-> TRUE]
    ELSE LET selectedText == getSelection(d, ss)
             transformedText ==
                 IF command = "uppercase" THEN toUpperCase(selectedText)
                 ELSE IF command = "lowercase" THEN toLowerCase(selectedText)
                 ELSE titleCase(selectedText)
             r == replaceSelection(d, ss, transformedText)
         IN IF command \notin {"uppercase", "lowercase", "titlecase"}
            THEN [doc |-> d, sels |-> ss, ret |-> TRUE]
            ELSE [doc |-> r.doc, sels |-> r.sels, ret |-> TRUE]

handleToggleCase(checking, d, ss) ==
    IF checking THEN [doc |-> d, sels |-> ss, ret |-> TRUE]
    ELSE LET r == replaceSelection(d, ss, toggleCase(getSelection(d, ss)))
         IN [doc |-> r.doc, sels |-> r.sels, ret |-> TRUE]

\* transform-to-uppercase, transform-to-lowercase, transform-to-titlecase
TransformSelection ==
    \E checking \in BOOLEAN, command \in {"uppercase", "lowercase", "titlecase"} :
        LET r == handleTextCommands(checking, command, doc, sels)
        IN /\ doc' = r.doc
           /\ sels' = r.sels
           /\ last' = Record(command, checking, r.ret, <<>>)
           /\ run' = EndRun(checking)
           /\ UNCHANGED <<settings, selectLineCount, lastSelectedLine, lastSelectedWord>>

ToggleCase ==
    \E checking \in BOOLEAN :
        LET r == handleToggleCase(checking, doc, sels)
        IN /\ doc' = r.doc
           /\ sels' = r.sels
           /\ last' = Record("togglecase", checking, r.ret, <<>>)
           /\ run' = EndRun(checking)
           /\ UNCHANGED <<settings, selectLineCount, lastSelectedLine, lastSelectedWord>>

CaseChars == {"a", "A", " ", TAB, "ß"}

\* The selections of the one-line document d made forwards; the commands
\* read the text of the selection only, which is the same either way.
ForwardSelections(d) ==
    {ss \in SingleSelections(d) : ss[1].anchor.ch <= ss[1].head.ch}

InitCase ==
    /\ doc \in DocsOver(CaseChars, 1, CaseMaxLen)
    /\ sels \in ForwardSelections(doc)
    /\ InitPlugin
    /\ last = NoRecord(doc, sels)
    /\ run = NoRun

NextCase == TransformSelection \/ ToggleCase

SpecCase == InitCase /\ [][NextCase]_vars

---------------------------------------------------------------------------
(* Text case: C17, C18.                                                    *)

\* The text the latest invocation started from: that of its selection.
LastSelectedText == getSelection(last.doc, last.sels)

\* The text the latest invocation put in its place: what lies between the
\* start of that selection and the cursor.
LastReplacement ==
    SubSeq(getValue(doc), SelFrom(last.doc, last.sels[1]) + 1,
           posToOffset(doc, getCursor(sels)))

\* The characters explored that have no case.
Uncased(c) == c \in {" ", TAB}

\* C17: toggle-case applied to the text it produced gives back the text it
\* started from; one application keeps the length of the text and leaves
\* every character without case as it is.
C17_ToggleCaseInvolution ==
    (last.cmd = "togglecase" /\ ~last.checking) =>
        /\ Len(LastReplacement) = Len(LastSelectedText)
        /\ \A i \in 1..Len(LastSelectedText) :
               Uncased(LastSelectedText[i]) => LastReplacement[i] = LastSelectedText[i]
        /\ toggleCase(LastReplacement) = LastSelectedText

TitleCaseDone ==
    /\ last.cmd = "titlecase"
    /\ ~last.checking

\* The places of the spaces of text t, and the k-th of them.
SpacesOf(t) == {i \in 1..Len(t) : t[i] = " "}

NthSpace(t, k) == CHOOSE i \in SpacesOf(t) : Cardinality({j \in SpacesOf(t) : j <= i}) = k

\* The k-th token of text t: what lies between the (k-1)-th space, or the
\* start, and the k-th space, or the end.
Token(t, k) ==
    SubSeq(t, IF k = 1 THEN 1 ELSE NthSpace(t, k - 1) + 1,
           IF k = Cardinality(SpacesOf(t)) + 1 THEN Len(t) ELSE NthSpace(t, k) - 1)

\* Token w with its first character in upper case and the rest in lower case.
Capitalized(w) ==
    IF w = <<>> THEN <<>>
    ELSE toUpperCase(<<w[1]>>) \o toLowerCase(SubSeq(w, 2, Len(w)))

---------------------------------------------------------------------------
(* Every command that is registered with a checkCallback, together.        *)

\* Documents whose lines are empty or not.
CheckDocs == UNION {[1..k -> {<<>>, <<"a">>}] : k \in 1..CheckMaxLines}

InitCheck ==
    /\ doc \in CheckDocs
    /\ sels \in SingleSelections(doc)
    /\ InitPlugin
    /\ last = NoRecord(doc, sels)
    /\ run = NoRun

\* The commands act on documents and selection sets within the bound.
CheckBound ==
    /\ Len(doc) <= CheckMaxLines
    /\ Len(sels) <= CheckMaxLines

NextCheck ==
    /\ CheckBound
    /\ \/ DuplicateLineDown
       \/ DuplicateLineUp
       \/ SelectLine
       \/ InsertCursorBelow
       \/ InsertCursorAbove
       \/ InsertLineAbove
       \/ InsertLineBelow
       \/ SelectWordOrExpand
       \/ SelectAllOccurrences
       \/ TransformSelection
       \/ ToggleCase

SpecCheck == InitCheck /\ [][NextCheck]_vars

---------------------------------------------------------------------------
(* Checking mode: C19.                                                     *)

\* C19: an invocation of a checkable command handler with checking = true
\* leaves the document, the selection set, selectLineCount,
\* lastSelectedLine and lastSelectedWord as they were, hands nothing to
\* the host, and returns true.
C19_CheckingModeNoMutation ==
    last.checking =>
        /\ doc = last.doc
        /\ sels = last.sels
        /\ selectLineCount = last.selectLineCount
        /\ lastSelectedLine = last.lastSelectedLine
        /\ lastSelectedWord = last.lastSelectedWord
        /\ last.issued = <<>>
        /\ last.outcome = "returned"
        /\ last.ret = TRUE

\* Line-select was invoked in checking mode in the middle of a run, where
\* execute mode would have counted the invocation.
C19_Witness ==
    /\ last.checking
    /\ last.cmd = "selectLine"
    /\ selectLineCount > 0
    /\ somethingSelected(sels)
    /\ handleSelectLine(FALSE, doc, sels, selectLineCount, lastSelectedLine).selectLineCount
           = selectLineCount + 1

---------------------------------------------------------------------------
(* The variants that load settings (src/main.ts).  Both duplicate the      *)
(* cursor's line only.  In the first the gate is written inside each       *)
(* checkCallback; in the second the callbacks delegate to methods.         *)

\* The flags of the two duplicate commands.
SettingsFlags == DOMAIN DEFAULT_SETTINGS

\* What the host may have stored for the plugin: any of the flags, or none.
SavedData == UNION {[S -> BOOLEAN] : S \in SUBSET SettingsFlags}

\* Object.assign({}, DEFAULT_SETTINGS, data).
loadSettings(data) ==
    [f \in SettingsFlags |-> IF f \in DOMAIN data THEN data[f] ELSE DEFAULT_SETTINGS[f]]

\* A copy of the cursor's line is inserted at its end; the cursor goes one
\* line down at its column.
cursorDupDown(d, ss) ==
    LET cursor == getCursor(ss)
        line == getLine(d, cursor.line)
        at == Pos(cursor.line, Len(line))
        d2 == replaceRange(d, <<NL>> \o line, at, at)
        to == Pos(cursor.line + 1, cursor.ch)
    IN [doc |-> d2, sels |-> setCursor(d2, to), issued |-> <<Sel(to, to)>>]

\* A copy of the cursor's line is inserted at its start; the cursor is set
\* to the position it had.
cursorDupUp(d, ss) ==
    LET cursor == getCursor(ss)
        line == getLine(d, cursor.line)
        at == Pos(cursor.line, 0)
        d2 == replaceRange(d, line \o <<NL>>, at, at)
        to == Pos(cursor.line, cursor.ch)
    IN [doc |-> d2, sels |-> setCursor(d2, to), issued |-> <<Sel(to, to)>>]

\* The checkCallback of duplicate-line-down with the gate inside.
checkCallbackDuplicateLineDown(checking, st, d, ss) ==
    IF st.enableDuplicateLineDown
    THEN IF checking THEN [doc |-> d, sels |-> ss, ret |-> TRUE, issued |-> <<>>]
         ELSE LET r == cursorDupDown(d, ss)
              IN [doc |-> r.doc, sels |-> r.sels, ret |-> TRUE, issued |-> r.issued]
    ELSE [doc |-> d, sels |-> ss, ret |-> FALSE, issued |-> <<>>]

checkCallbackDuplicateLineUp(checking, st, d, ss) ==
    IF st.enableDuplicateLineUp
    THEN IF checking THEN [doc |-> d, sels |-> ss, ret |-> TRUE, issued |-> <<>>]
         ELSE LET r == cursorDupUp(d, ss)
              IN [doc |-> r.doc, sels |-> r.sels, ret |-> TRUE, issued |-> r.issued]
    ELSE [doc |-> d, sels |-> ss, ret |-> FALSE, issued |-> <<>>]

\* The host calls the single-cursor handlers make, in the order they make
\* them.
HostCalls == <<"getCursor", "getLine", "replaceRange", "setCursor">>

\* Which host call of an invocation throws, if any.  A call that throws has
\* had no effect.
HostFailures == {"none"} \cup {HostCalls[i] : i \in 1..Len(HostCalls)}

\* catch (error) { console.error(...) }: the handler goes on to return true.
methodCatch(r) == [r EXCEPT !.ret = TRUE, !.outcome = "returned"]

\* The statements of the single-cursor handlers up to the host call that
\* throws: setCursor is the only call with an edit before it, and the host
\* then still holds the selection at its coordinates.
cursorDupUntil(fails, r, d, ss) ==
    IF fails = "none"
    THEN [doc |-> r.doc, sels |-> r.sels, ret |-> TRUE, issued |-> r.issued,
          outcome |-> "returned"]
    ELSE IF fails = "setCursor"
    THEN [doc |-> r.doc, sels |-> setSelections(r.doc, ss), ret |-> FALSE,
          issued |-> <<>>, outcome |-> "throws"]
    ELSE [doc |-> d, sels |-> ss, ret |-> FALSE, issued |-> <<>>, outcome |-> "throws"]

\* The handler methods the later variant registers: checkCallback is
\* (checking) => this.handleDuplicateLineDown(checking), and the method
\* reads no field of the plugin.  The body of duplicate-line-down is in a
\* try block.
methodDuplicateLineDown(checking, fails, d, ss) ==
    IF checking
    THEN [doc |-> d, sels |-> ss, ret |-> TRUE, issued |-> <<>>, outcome |-> "returned"]
    ELSE LET r == cursorDupUntil(fails, cursorDupDown(d, ss), d, ss)
         IN IF r.outcome = "throws" THEN methodCatch(r) ELSE r

\* Duplicate-line-up has no try block: an exception leaves the handler.
methodDuplicateLineUp(checking, fails, d, ss) ==
    IF checking
    THEN [doc |-> d, sels |-> ss, ret |-> TRUE, issued |-> <<>>, outcome |-> "returned"]
    ELSE cursorDupUntil(fails, cursorDupUp(d, ss), d, ss)

GatedDuplicateLineDown ==
    \E checking \in BOOLEAN :
        LET r == checkCallbackDuplicateLineDown(checking, settings, doc, sels)
        IN /\ Len(doc) <= DupMaxLines
           /\ doc' = r.doc
           /\ sels' = r.sels
           /\ last' = Record("duplicateLineDown", checking, r.ret, r.issued)
           /\ UNCHANGED <<settings, selectLineCount, lastSelectedLine, lastSelectedWord, run>>

GatedDuplicateLineUp ==
    \E checking \in BOOLEAN :
        LET r == checkCallbackDuplicateLineUp(checking, settings, doc, sels)
        IN /\ Len(doc) <= DupMaxLines
           /\ doc' = r.doc
           /\ sels' = r.sels
           /\ last' = Record("duplicateLineUp", checking, r.ret, r.issued)
           /\ UNCHANGED <<settings, selectLineCount, lastSelectedLine, lastSelectedWord, run>>

\* A toggle of the settings tab: the flag takes the value and the settings
\* are saved.
SetSetting ==
    \E f \in SettingsFlags, value \in BOOLEAN :
        /\ settings' = [settings EXCEPT ![f] = value]
        /\ last' = Record("setSetting", FALSE, TRUE, <<>>)
        /\ UNCHANGED <<doc, sels, selectLineCount, lastSelectedLine, lastSelectedWord, run>>

MethodDuplicateLineDown ==
    \E checking \in BOOLEAN, fails \in HostFailures :
        LET r == methodDuplicateLineDown(checking, fails, doc, sels)
        IN /\ Len(doc) <= DupMaxLines
           /\ checking => fails = "none"
           /\ doc' = r.doc
           /\ sels' = r.sels
           /\ last' = [Record("duplicateLineDown", checking, r.ret, r.issued)
                           EXCEPT !.outcome = r.outcome, !.failed = fails]
           /\ UNCHANGED <<settings, selectLineCount, lastSelectedLine, lastSelectedWord, run>>

MethodDuplicateLineUp ==
    \E checking \in BOOLEAN, fails \in HostFailures :
        LET r == methodDuplicateLineUp(checking, fails, doc, sels)
        IN /\ Len(doc) <= DupMaxLines
           /\ checking => fails = "none"
           /\ doc' = r.doc
           /\ sels' = r.sels
           /\ last' = [Record("duplicateLineUp", checking, r.ret, r.issued)
                           EXCEPT !.outcome = r.outcome, !.failed = fails]
           /\ UNCHANGED <<settings, selectLineCount, lastSelectedLine, lastSelectedWord, run>>

\* After onload: the settings are the stored data merged over the defaults.
InitSettings ==
    /\ doc \in DocsOver({"a"}, DupMaxLines, DupMaxLen)
    /\ sels \in SingleSelections(doc)
    /\ selectLineCount = 0
    /\ lastSelectedLine = -1
    /\ lastSelectedWord = <<>>
    /\ settings \in {loadSettings(data) : data \in SavedData}
    /\ last = NoRecord(doc, sels)
    /\ run = NoRun

NextGated == GatedDuplicateLineDown \/ GatedDuplicateLineUp \/ SetSetting

\* The variant with the gate inside the callbacks.
SpecGated == InitSettings /\ [][NextGated]_vars

NextMethods == MethodDuplicateLineDown \/ MethodDuplicateLineUp

\* The variant whose handlers are separate methods.
SpecMethods == InitSettings /\ [][NextMethods]_vars

---------------------------------------------------------------------------
(* The configuration gate: C20.                                            *)

GatedCommands == {"duplicateLineDown", "duplicateLineUp"}

\* The enable flag of a gated command.
FlagOf(cmd) ==
    IF cmd = "duplicateLineDown" THEN "enableDuplicateLineDown" ELSE "enableDuplicateLineUp"

\* C20: after an invocation of a command that has an enable flag, the
\* value returned is the flag's value, and when the flag is false an
\* invocation in execute mode has left the document and the selection set
\* as they were.
C20_ConfigurationGate ==
    last.cmd \in GatedCommands =>
        /\ last.ret = settings[FlagOf(last.cmd)]
        /\ (~settings[FlagOf(last.cmd)] /\ ~last.checking) =>
               /\ doc = last.doc
               /\ sels = last.sels

\* Duplicate-line-down was executed with its flag false on a cursor that
\* the command, had it run, would have moved.
C20_DisabledCommandExecuted ==
    /\ last.cmd = "duplicateLineDown"
    /\ ~last.checking
    /\ ~settings.enableDuplicateLineDown
    /\ cursorDupDown(last.doc, last.sels).doc # last.doc

---------------------------------------------------------------------------
(* Duplicate line down with several selections: C21.                       *)

\* First and last line of a selection.
FirstLine(s) == Min(s.anchor.line, s.head.line)

FinalLine(s) == Max(s.anchor.line, s.head.line)

\* The line ranges of the selections are pairwise disjoint.
DisjointLineRanges(ss) ==
    \A i, j \in 1..Len(ss) :
        i # j => (FinalLine(ss[i]) < FirstLine(ss[j]) \/ FinalLine(ss[j]) < FirstLine(ss[i]))

\* Selection sets of two up to MaxSels selections on pairwise disjoint line
\* ranges, in any order of the list.
DisjointSelections(d) ==
    LET S == {Sel(a, h) : a \in Positions(d), h \in Positions(d)}
    IN {ss \in UNION {[1..k -> S] : k \in 2..MaxSels} : DisjointLineRanges(ss)}

\* Documents of two lines or more whose lines are empty or not.
MultiDocs == UNION {[1..k -> {<<>>, <<"a">>}] : k \in 2..DupMaxLines}

InitMulti ==
    /\ doc \in MultiDocs
    /\ sels \in DisjointSelections(doc)
    /\ InitPlugin
    /\ last = NoRecord(doc, sels)
    /\ run = NoRun

SpecMulti == InitMulti /\ [][NextDup]_vars

\* Line i of old, followed by the block of every selection that ends on it.
RECURSIVE BlocksAfter(_, _, _, _)
BlocksAfter(old, ss, i, k) ==
    IF k > Len(ss) THEN <<>>
    ELSE (IF FinalLine(ss[k]) = i
          THEN SubSeq(old, FirstLine(ss[k]) + 1, i + 1) ELSE <<>>)
         \o BlocksAfter(old, ss, i, k + 1)

\* The document old with the block of every selection twice in succession.
RECURSIVE EveryBlockTwice(_, _, _)
EveryBlockTwice(old, ss, i) ==
    IF i >= Len(old) THEN <<>>
    ELSE <<old[i + 1]>> \o BlocksAfter(old, ss, i, 1) \o EveryBlockTwice(old, ss, i + 1)

\* The latest invocation executed duplicate-line-down on two or more
\* selections with pairwise disjoint line ranges.
MultiDupDownDone ==
    /\ last.cmd = "duplicateLineDown"
    /\ ~last.checking
    /\ Len(last.sels) >= 2
    /\ DisjointLineRanges(last.sels)

\* C21: duplicate-line-down with two or more selections on pairwise
\* disjoint line ranges duplicates, for each selection, the text its line
\* range held when the command started, right below that block: in the
\* resulting document every selected block appears twice in succession and
\* every other line once, in the original order.
C21_MultiDuplicateDownSnapshot ==
    MultiDupDownDone => doc = EveryBlockTwice(last.doc, last.sels, 0)

\* The same for selection lists that name the lower block first.
C21_LowerBlockFirst ==
    (MultiDupDownDone
        /\ \A i, j \in 1..Len(last.sels) :
               i < j => FirstLine(last.sels[i]) > FinalLine(last.sels[j]))
    => doc = EveryBlockTwice(last.doc, last.sels, 0)

\* Two blocks with differing texts were duplicated, the lower one first.
C21_LowerBlockFirstWitness ==
    /\ MultiDupDownDone
    /\ FirstLine(last.sels[1]) > FinalLine(last.sels[2])
    /\ getLine(last.doc, FirstLine(last.sels[1])) # getLine(last.doc, FirstLine(last.sels[2]))

---------------------------------------------------------------------------
(* Select all occurrences: the empty search text (C22) and search texts    *)
(* that are no well-formed pattern (C23).                                  *)

\* C22: select-all-occurrences invoked in execute mode where the search
\* text is empty (nothing selected, the cursor on an empty line or between
\* two spaces) returns, and leaves the document and the selection set as
\* they were.
C22_EmptySearchTextNoOp ==
    (OccDone /\ LastText = <<>>) =>
        /\ last.outcome = "returned"
        /\ doc = last.doc
        /\ sels = last.sels

\* The characters of the documents explored for search texts with a
\* repetition sign.
StarChars == {"a", "*", " "}

StarDocs == {SplitLines(v) : v \in StringsOver(StarChars, OccMaxText)}

InitStar ==
    /\ doc \in StarDocs
    /\ sels \in SingleSelections(doc)
    /\ InitPlugin
    /\ last = NoRecord(doc, sels)
    /\ run = NoRun

SpecStar == InitStar /\ [][NextOcc]_vars

\* C23: an execute-mode invocation of select-all-occurrences completes
\* normally and returns true, whatever text of the document is the search
\* text.
C23_SelectAllNeverRaises ==
    OccDone =>
        /\ last.outcome = "returned"
        /\ last.ret = TRUE

\* The same for the search texts that hold no repetition sign and are not
\* empty.
C23_PlainSearchTextReturns ==
    (OccDone /\ LastText # <<>> /\ \A i \in 1..Len(LastText) : LastText[i] # "*") =>
        /\ last.outcome = "returned"
        /\ last.ret = TRUE

\* A search text that starts with the repetition sign made the handler throw.
C23_ThrowsWitness ==
    /\ OccDone
    /\ LastText[1] = "*"
    /\ last.outcome = "throws"

---------------------------------------------------------------------------
(* Duplicate line down inside try/catch: C24.                              *)

\* The latest invocation executed the single-cursor duplicate-line-down and
\* a host call threw during it.
DupDownFailed ==
    /\ last.cmd = "duplicateLineDown"
    /\ ~last.checking
    /\ last.failed # "none"

\* C24: when a host call made by duplicate-line-down (getCursor, getLine,
\* replaceRange or setCursor) throws, the handler returns true, no
\* exception leaves it, and the document is as it was before the
\* invocation.
C24_DuplicateDownAllOrNothing ==
    DupDownFailed =>
        /\ last.outcome = "returned"
        /\ last.ret = TRUE
        /\ doc = last.doc

\* The same without the requirement on the document: the exception is
\* caught and true is returned, whichever call threw.
C24_ExceptionCaught ==
    DupDownFailed =>
        /\ last.outcome = "returned"
        /\ last.ret = TRUE

\* The same for the calls made before the edit.
C24_FailureBeforeEdit ==
    (DupDownFailed /\ last.failed # "setCursor") =>
        /\ last.outcome = "returned"
        /\ last.ret = TRUE
        /\ doc = last.doc

\* replaceRange threw on a line that is not empty.
C24_FailureBeforeEditWitness ==
    /\ DupDownFailed
    /\ last.failed = "replaceRange"
    /\ getLine(last.doc, getCursor(last.sels).line) # <<>>

---------------------------------------------------------------------------
(* Select word or expand in the variant that keeps lastSelectedWord        *)
(* (src/main.ts).  lastSelectedWord is <<>> for null and for the empty     *)
(* string, which the handler's tests do not tell apart.                    *)

\* line.indexOf(this.lastSelectedWord, cursor.ch)
methodNextOccurrence(line, lastWord, ch) == indexOf(line, lastWord, ch)

methodSelectWordOrExpand(checking, d, ss, lastWord) ==
    LET cursor == getCursor(ss)
        line == getLine(d, cursor.line)
        selectedText == getSelection(d, ss)
        nextIndex == methodNextOccurrence(line, lastWord, cursor.ch)
        wordStart == wordStartOf(line, cursor.ch)
        word == wordAt(line, cursor.ch)
        unchanged == [sels |-> ss, lastSelectedWord |-> lastWord, ret |-> TRUE,
                      issued |-> <<>>]
    IN IF checking THEN unchanged
       ELSE IF selectedText # <<>>
       THEN [unchanged EXCEPT !.lastSelectedWord = selectedText]
       ELSE IF lastWord # <<>>
       THEN IF nextIndex # -1
            THEN LET to == Pos(cursor.line, nextIndex + Len(lastWord))
                 IN [unchanged EXCEPT !.sels = setCursor(d, to),
                                      !.issued = <<Sel(to, to)>>]
            ELSE unchanged
       ELSE LET s == Sel(Pos(cursor.line, wordStart),
                         Pos(cursor.line, wordStart + Len(word)))
            IN [sels |-> setSelection(d, s.anchor, s.head), lastSelectedWord |-> word,
                ret |-> TRUE, issued |-> <<s>>]

MethodSelectWordOrExpand ==
    \E checking \in BOOLEAN :
        LET r == methodSelectWordOrExpand(checking, doc, sels, lastSelectedWord)
        IN /\ sels' = r.sels
           /\ lastSelectedWord' = r.lastSelectedWord
           /\ last' = Record("selectWordOrExpand", checking, r.ret, r.issued)
           /\ run' = EndRun(checking)
           /\ UNCHANGED <<settings, doc, selectLineCount, lastSelectedLine>>

\* The lines of the documents word-select is explored on.
MemoryLineTexts == {<<>>, <<"a", " ", "b">>}

MemoryDocs == UNION {[1..k -> MemoryLineTexts] : k \in 1..MemMaxLines}

InitMemory ==
    /\ doc \in MemoryDocs
    /\ sels \in SingleSelections(doc)
    /\ InitPlugin
    /\ last = NoRecord(doc, sels)
    /\ run = NoRun

NextMemory == MethodSelectWordOrExpand \/ SelectLine \/ MouseDown \/ SelectionChange

SpecMemory == InitMemory /\ [][NextMemory]_vars

---------------------------------------------------------------------------
(* Word select across a pointer-down: C25.                                 *)

\* The latest invocation executed word-select, with nothing selected, after
\* a pointer-down event.
WordSelectAfterPointerDown ==
    /\ last.cmd = "selectWordOrExpand"
    /\ ~last.checking
    /\ last.afterPointerDown
    /\ ~somethingSelected(last.sels)

\* C25: a word-select invocation after a pointer-down event that starts
\* with nothing selected produces the selection of the word under the
\* cursor, which is the selection the handler produces when no word is
\* remembered; hence two such invocations from the same cursor position of
\* the same document produce the same selection, whatever word was selected
\* before the pointer-down.
C25_WordSelectNoLeak ==
    WordSelectAfterPointerDown =>
        sels = methodSelectWordOrExpand(FALSE, last.doc, last.sels, <<>>).sels

\* The same for the invocations that start with no word remembered.
C25_WordSelectFresh ==
    (WordSelectAfterPointerDown /\ last.lastSelectedWord = <<>>) =>
        sels = methodSelectWordOrExpand(FALSE, last.doc, last.sels, <<>>).sels

\* After a pointer-down the word "b" was selected from a cursor inside it.
C25_FreshWitness ==
    /\ WordSelectAfterPointerDown
    /\ last.lastSelectedWord = <<>>
    /\ getSelection(doc, sels) = <<"b">>
    /\ lastSelectedWord = <<"b">>

---------------------------------------------------------------------------
(* The pointer-down listener: C26.                                         *)

\* C26: the pointer-down listener sets selectLineCount to 0 and
\* lastSelectedLine to -1 and leaves lastSelectedWord, the document and the
\* selection set as they were.
C26_PointerDownFrame ==
    last.cmd = "mousedown" =>
        /\ selectLineCount = 0
        /\ lastSelectedLine = -1
        /\ lastSelectedWord = last.lastSelectedWord
        /\ doc = last.doc
        /\ sels = last.sels

\* The listener ran in the middle of a line-select run, with a word
\* remembered and something selected.
C26_Witness ==
    /\ last.cmd = "mousedown"
    /\ last.selectLineCount > 1
    /\ last.lastSelectedLine >= 0
    /\ lastSelectedWord # <<>>
    /\ somethingSelected(sels)

---------------------------------------------------------------------------
(* Line select acts on the cursor's line: C27.                             *)

\* The latest invocation executed line-select.
SelectLineDone ==
    /\ last.cmd = "selectLine"
    /\ ~last.checking

\* The issued selection starts at column 0 of a line of the document.
IssuedFromValidLine ==
    /\ last.issued[1].anchor.ch = 0
    /\ last.issued[1].anchor.line \in 0..(lineCount(last.doc) - 1)

\* The issued selection, from column 0 of its first line to column 0 of
\* the line after its last, includes the line the cursor was on.
IssuedIncludesCursorLine ==
    LET c == getCursor(last.sels).line
    IN /\ last.issued[1].anchor.line <= c
       /\ c < last.issued[1].head.line

\* The invocation continued a run: it did not start from count 0.
RunContinued == selectLineCount >= 2

\* C27: in any interleaving of line-select invocations, pointer-down
\* events and selection changes made by other means, the selection issued
\* by a line-select invocation starts at column 0 of a line index in
\* [0, lineCount) and includes the line the cursor was on at the
\* invocation, and a run is continued only when the selection set is the
\* one the previous line-select invocation produced.
C27_LineSelectOnCursorLine ==
    SelectLineDone =>
        /\ IssuedFromValidLine
        /\ IssuedIncludesCursorLine
        /\ RunContinued => last.afterSelectLine

\* The same for the invocations of a run that started with nothing
\* selected and was not interrupted.
C27_InRun ==
    (SelectLineDone /\ run.active) =>
        /\ IssuedFromValidLine
        /\ IssuedIncludesCursorLine
        /\ RunContinued => last.afterSelectLine

\* A run was continued on a selection that line-select had not produced,
\* and the issued selection ends above the cursor's line.
C27_ForeignSelectionContinued ==
    /\ SelectLineDone
    /\ RunContinued
    /\ ~last.afterSelectLine
    /\ IssuedFromValidLine
    /\ getCursor(last.sels).line >= last.issued[1].head.line

---------------------------------------------------------------------------
(* The selection-aware duplicate commands on a single cursor: C28.         *)

\* The latest invocation started from a single collapsed cursor.
FromCursor ==
    /\ Len(last.sels) = 1
    /\ last.sels[1].anchor = last.sels[1].head

\* C28: on a single collapsed cursor at line L, column c, the
\* selection-aware duplicate-line-down and duplicate-line-up give the
\* document and the cursor that the single-cursor handlers give: the
\* cursor at (L+1, c) after down and at (L, c) after up.
C28_DuplicateRefinesSingleCursor ==
    LET L == last.sels[1].head.line
        c == last.sels[1].head.ch
    IN /\ (DupDownDone /\ FromCursor) =>
              /\ doc = cursorDupDown(last.doc, last.sels).doc
              /\ sels = cursorDupDown(last.doc, last.sels).sels
              /\ last.issued = cursorDupDown(last.doc, last.sels).issued
              /\ sels = <<Sel(Pos(L + 1, c), Pos(L + 1, c))>>
       /\ (DupUpDone /\ FromCursor) =>
              /\ doc = cursorDupUp(last.doc, last.sels).doc
              /\ sels = cursorDupUp(last.doc, last.sels).sels
              /\ last.issued = cursorDupUp(last.doc, last.sels).issued
              /\ sels = <<Sel(Pos(L, c), Pos(L, c))>>

\* A cursor behind the text of a line that has a different line below it
\* was duplicated downwards.
C28_Witness ==
    /\ DupDownDone
    /\ FromCursor
    /\ last.sels[1].head.ch > 0
    /\ last.sels[1].head.line + 1 < Len(last.doc)
    /\ getLine(last.doc, last.sels[1].head.line + 1) # getLine(last.doc, last.sels[1].head.line)

---------------------------------------------------------------------------
(* Duplicate line up and down give the same document: C29.                 *)

\* C29: from the same document and the same single selection on lines
\* a..b, duplicate-line-down and duplicate-line-up give the same document,
\* the one with the block a..b twice in succession; the selection after
\* duplicate-down is on the lower copy, lines b+1..b+n, the selection
\* after duplicate-up is on the line indices a..b, and the one is the
\* other moved by n lines.
C29_DuplicateUpDownSameDocument ==
    (DupDownDone \/ DupUpDone) =>
        LET down == handleDuplicateLineDown(FALSE, last.doc, last.sels)
            up == handleDuplicateLineUp(FALSE, last.doc, last.sels)
        IN /\ doc = down.doc
           /\ doc = up.doc
           /\ doc = BlockTwice(last.doc, LastA, LastB)
           /\ sels = IF DupDownDone THEN down.sels ELSE up.sels
           /\ down.sels[1].anchor.line = LastB + 1
           /\ down.sels[1].head.line = LastB + LastN
           /\ up.sels[1].anchor.line = LastA
           /\ up.sels[1].head.line = LastB
           /\ down.sels = <<ShiftSel(up.sels[1], LastN)>>

\* A block of two differing lines below the first line was duplicated
\* upwards from a backward selection.
C29_Witness ==
    /\ DupUpDone
    /\ LastA > 0
    /\ LastA < LastB
    /\ last.sels[1].head.line < last.sels[1].anchor.line
    /\ getLine(last.doc, LastA) # getLine(last.doc, LastB)
    /\ getLine(last.doc, LastA - 1) # getLine(last.doc, LastA)

---------------------------------------------------------------------------
(* Line sort with several selections: C30.                                 *)

\* Selections from line to line, at column 0.
LineSelections(d) ==
    {Sel(Pos(a, 0), Pos(h, 0)) : a \in 0..(Len(d) - 1), h \in 0..(Len(d) - 1)}

\* Selection sets of up to MaxSels selections, overlapping and equal ones
\* included.
AnySelections(d) == UNION {[1..k -> LineSelections(d)] : k \in 1..MaxSels}

InitSortMulti ==
    /\ doc \in UNION {[1..k -> SortLineTexts] : k \in 1..SortMaxLines}
    /\ sels \in AnySelections(doc)
    /\ InitPlugin
    /\ last = NoRecord(doc, sels)
    /\ run = NoRun

SpecSortMulti == InitSortMulti /\ [][NextSort]_vars

\* The latest invocation was a line sort.
SortRan == last.cmd \in {"sortSelectedLines", "sortSelectedLinesReverse"}

\* Line i lies in the line range of one of the selections.
InSomeRange(ss, i) == \E k \in 1..Len(ss) : FirstLine(ss[k]) <= i /\ i <= FinalLine(ss[k])

\* The line count, the lines as a multiset and every line outside the
\* selected ranges are as before the sort.
SortPreservesLines ==
    /\ lineCount(doc) = lineCount(last.doc)
    /\ SameLines(doc, last.doc, 0, lineCount(doc) - 1)
    /\ \A i \in 0..(lineCount(doc) - 1) :
           ~InSomeRange(last.sels, i) => getLine(doc, i) = getLine(last.doc, i)

\* The same sort with the same selections, run on the result, changes
\* nothing.
SortIdempotent ==
    sortSelectedLines(doc, last.sels, last.cmd = "sortSelectedLinesReverse").doc = doc

\* C30: after a line sort, ascending or reverse, with any set of
\* selections, overlapping and equal ones included, the line count and the
\* multiset of the document's lines are as before, every line outside all
\* selected ranges is as before, and running the same sort again with the
\* same selections changes nothing.
C30_SortPreservesAndIdempotent ==
    SortRan => (SortPreservesLines /\ SortIdempotent)

\* The part of C30 about the lines that are kept.
C30_SortPreserves ==
    SortRan => SortPreservesLines

\* Idempotence for selections whose line ranges are pairwise disjoint.
C30_SortIdempotentWhenDisjoint ==
    (SortRan /\ DisjointLineRanges(last.sels)) => SortIdempotent

\* Two selections that share a line were sorted and the document changed.
C30_OverlapWitness ==
    /\ SortRan
    /\ Len(last.sels) = 2
    /\ ~DisjointLineRanges(last.sels)
    /\ last.sels[1] # last.sels[2]
    /\ doc # last.doc

====
